---- MODULE Spec2Model ----
(***************************************************************************)
(* Interview scheduling agent: the negotiation engine of                   *)
(* src/scheduler_agent.py with the calendar clients of                     *)
(* src/calendar_client.py as its collaborators.                            *)
(*                                                                         *)
(* Time is counted in minutes from midnight of day 0 ("today", a Friday).  *)
(* A datetime string is a record [t, form]: the instant it denotes and the *)
(* textual form it is written in.                                          *)
(***************************************************************************)
EXTENDS Integers, Sequences, FiniteSets, TLC

VARIABLES
    calendar,         \* which calendar client the agent was built with
    now,              \* wall clock, in seconds, as read by datetime.now()
    active_requests,  \* SchedulerAgent.active_requests: request id -> InterviewRequest
    lastOp,           \* the public call made last, with its arguments
    result,           \* what that call returned
    outbox,           \* the e-mails that call sent, in order
    calls,            \* the calendar calls it made, in order, with what they returned
    llm,              \* how many times it called the language model
    matcher,          \* how many times it called _find_overlap
    initiating,       \* the initiate_scheduling call in progress, if any, and where it is
    inbox,            \* the replies waiting in the mailbox, oldest first
    poller            \* EmailPollingService: its stop flag and where its thread is

vars == <<calendar, now, active_requests, lastOp, result, outbox, calls, llm, matcher,
          initiating, inbox, poller>>

\* what only the threads of src/main.py touch
threads == <<initiating, inbox, poller>>

(***************************************************************************)
(* Bounds of the model                                                     *)
(***************************************************************************)
MaxClock == 1     \* the clock runs over 0..MaxClock seconds
MaxReplies == 3   \* replies handled, summed over the live requests
MaxTexts == 1     \* messages parsed one after the other
MaxMail == 2      \* replies delivered to the mailbox of the polling service

(***************************************************************************)
(* Program constants                                                       *)
(***************************************************************************)
INITIAL_DAYS_AHEAD == 14
RETRY_DAYS_AHEAD == 21
OFFER_CAP == 6
REAL_SLOT_CAP == 10
MOCK_SLOT_CAP == 6

(***************************************************************************)
(* Dates and times                                                         *)
(***************************************************************************)
At(d, h, m) == d * (24 * 60) + h * 60 + m
DateOf(t) == t \div (24 * 60)
HourOf(t) == (t % (24 * 60)) \div 60
\* datetime.weekday(): Monday is 0; day 0 is a Friday
WeekdayOf(t) == (DateOf(t) + 4) % 7

\* datetime.isoformat() of a naive datetime
isoformat(t) == [t |-> t, form |-> "iso"]

NoTime == [ok |-> FALSE, t |-> 0]
Time(t) == [ok |-> TRUE, t |-> t]

\* _parse_dt: a trailing UTC offset or a Z is dropped and the rest is read as a
\* naive datetime in one of five formats; anything else raises ValueError
DtForms == {"iso", "isoZ", "offset", "space"}
parse_dt(s) == IF s.form \in DtForms THEN Time(s.t) ELSE NoTime

(***************************************************************************)
(* Candidate slots, as the language model returns them                     *)
(***************************************************************************)
\* a slot of the extracted JSON: "date" (present and well formed, or not),
\* "start_time" and "end_time" (a time of day in minutes, absent, or malformed)
CandidateSlot(hasDate, d, sk, sm, ek, em) ==
    [has_date |-> hasDate, date |-> d,
     start_kind |-> sk, start_time |-> sm,
     end_kind |-> ek, end_time |-> em]

parse_candidate_slot_start(cs) ==
    IF ~cs.has_date THEN NoTime
    ELSE IF cs.start_kind = "absent" THEN Time(At(cs.date, 0, 0))
    ELSE IF cs.start_kind = "time" THEN Time(At(cs.date, 0, cs.start_time))
    ELSE NoTime

\* _parse_candidate_slot_end returning the stated end whenever it parses
parse_candidate_slot_end_as_stated(cs, duration_minutes) ==
    LET start == parse_candidate_slot_start(cs)
        end == At(cs.date, 0, cs.end_time)
    IN  IF ~start.ok THEN NoTime
        ELSE IF cs.end_kind = "time" THEN Time(end)
        ELSE Time(start.t + duration_minutes)

parse_candidate_slot_end(cs, duration_minutes) ==
    LET start == parse_candidate_slot_start(cs)
        end == At(cs.date, 0, cs.end_time)
    IN  IF ~start.ok THEN NoTime
        ELSE IF cs.end_kind = "time" /\ end > start.t THEN Time(end)
        ELSE Time(start.t + duration_minutes)

(***************************************************************************)
(* The slot matcher                                                        *)
(***************************************************************************)
\* tier_matched with the fourth tier accepting any common stretch of time
tier_matched_any_overlap(rs_start, rs_end, cs_start, cs_end, duration_minutes) ==
    IF DateOf(rs_start) = DateOf(cs_start) /\ HourOf(rs_start) = HourOf(cs_start)
    THEN TRUE
    ELSE IF WeekdayOf(rs_start) = WeekdayOf(cs_start) /\ HourOf(rs_start) = HourOf(cs_start)
    THEN TRUE
    ELSE IF DateOf(rs_start) = DateOf(cs_start) /\ HourOf(cs_start) = 0
    THEN TRUE
    ELSE LET overlap_start == IF rs_start > cs_start THEN rs_start ELSE cs_start
             overlap_end == IF rs_end < cs_end THEN rs_end ELSE cs_end
         IN  (overlap_end - overlap_start) > 0

\* tier_matched without the weekday tier
tier_matched_without_weekday(rs_start, rs_end, cs_start, cs_end, duration_minutes) ==
    IF DateOf(rs_start) = DateOf(cs_start) /\ HourOf(rs_start) = HourOf(cs_start)
    THEN TRUE
    ELSE IF DateOf(rs_start) = DateOf(cs_start) /\ HourOf(cs_start) = 0
    THEN TRUE
    ELSE LET overlap_start == IF rs_start > cs_start THEN rs_start ELSE cs_start
             overlap_end == IF rs_end < cs_end THEN rs_end ELSE cs_end
         IN  (overlap_end - overlap_start) >= duration_minutes

\* tier_matched with the fourth tier asking for more than the duration
tier_matched_strictly_longer(rs_start, rs_end, cs_start, cs_end, duration_minutes) ==
    IF DateOf(rs_start) = DateOf(cs_start) /\ HourOf(rs_start) = HourOf(cs_start)
    THEN TRUE
    ELSE IF WeekdayOf(rs_start) = WeekdayOf(cs_start) /\ HourOf(rs_start) = HourOf(cs_start)
    THEN TRUE
    ELSE IF DateOf(rs_start) = DateOf(cs_start) /\ HourOf(cs_start) = 0
    THEN TRUE
    ELSE LET overlap_start == IF rs_start > cs_start THEN rs_start ELSE cs_start
             overlap_end == IF rs_end < cs_end THEN rs_end ELSE cs_end
         IN  (overlap_end - overlap_start) > duration_minutes

\* the four tiers of _find_overlap for one parsed pair
tier_matched(rs_start, rs_end, cs_start, cs_end, duration_minutes) ==
    IF DateOf(rs_start) = DateOf(cs_start) /\ HourOf(rs_start) = HourOf(cs_start)
    THEN TRUE
    ELSE IF WeekdayOf(rs_start) = WeekdayOf(cs_start) /\ HourOf(rs_start) = HourOf(cs_start)
    THEN TRUE
    ELSE IF DateOf(rs_start) = DateOf(cs_start) /\ HourOf(cs_start) = 0
    THEN TRUE
    ELSE LET overlap_start == IF rs_start > cs_start THEN rs_start ELSE cs_start
             overlap_end == IF rs_end < cs_end THEN rs_end ELSE cs_end
         IN  (overlap_end - overlap_start) >= duration_minutes

\* one (recruiter slot, candidate slot) pair: unparseable slots are skipped
pair_matched(rs, cs, duration_minutes) ==
    LET rs_start == parse_dt(rs.start)
        rs_end == parse_dt(rs.end)
        cs_start == parse_candidate_slot_start(cs)
        cs_end == parse_candidate_slot_end(cs, duration_minutes)
    IN  /\ rs_start.ok /\ rs_end.ok
        /\ cs_start.ok /\ cs_end.ok
        /\ tier_matched(rs_start.t, rs_end.t, cs_start.t, cs_end.t, duration_minutes)

\* the dict appended to `overlapping` for a matched recruiter slot
matched_slot(rs) ==
    [start |-> isoformat(parse_dt(rs.start).t),
     end |-> isoformat(parse_dt(rs.end).t),
     display |-> parse_dt(rs.start).t]

\* the inner loop of _find_overlap appending the interval the candidate stated
\* instead of the recruiter slot it matched
RECURSIVE overlapping_inner_stated(_, _, _, _)
overlapping_inner_stated(rs, candidate_slots, duration_minutes, j) ==
    IF j > Len(candidate_slots) THEN << >>
    ELSE (IF pair_matched(rs, candidate_slots[j], duration_minutes)
          THEN <<[start |-> isoformat(parse_candidate_slot_start(candidate_slots[j]).t),
                  end |-> isoformat(parse_candidate_slot_end(candidate_slots[j],
                                                             duration_minutes).t),
                  display |-> parse_candidate_slot_start(candidate_slots[j]).t]>>
          ELSE << >>)
         \o overlapping_inner_stated(rs, candidate_slots, duration_minutes, j + 1)

RECURSIVE overlapping_inner(_, _, _, _)
overlapping_inner(rs, candidate_slots, duration_minutes, j) ==
    IF j > Len(candidate_slots) THEN << >>
    ELSE (IF pair_matched(rs, candidate_slots[j], duration_minutes)
          THEN <<matched_slot(rs)>> ELSE << >>)
         \o overlapping_inner(rs, candidate_slots, duration_minutes, j + 1)

\* the outer loop of _find_overlap walking the recruiter slots from the last
RECURSIVE overlapping_from_last(_, _, _, _)
overlapping_from_last(recruiter_slots, candidate_slots, duration_minutes, i) ==
    IF i > Len(recruiter_slots) THEN << >>
    ELSE overlapping_from_last(recruiter_slots, candidate_slots, duration_minutes, i + 1)
         \o overlapping_inner(recruiter_slots[i], candidate_slots, duration_minutes, 1)

RECURSIVE overlapping(_, _, _, _)
overlapping(recruiter_slots, candidate_slots, duration_minutes, i) ==
    IF i > Len(recruiter_slots) THEN << >>
    ELSE overlapping_inner(recruiter_slots[i], candidate_slots, duration_minutes, 1)
         \o overlapping(recruiter_slots, candidate_slots, duration_minutes, i + 1)

\* unique without the duplicate removal
unique_keeps_duplicates(s, seen) == s

\* "Remove duplicates": keep the first entry of every start string
RECURSIVE unique(_, _)
unique(s, seen) ==
    IF s = << >> THEN << >>
    ELSE IF Head(s).start \in seen THEN unique(Tail(s), seen)
    ELSE <<Head(s)>> \o unique(Tail(s), seen \cup {Head(s).start})

find_overlap(recruiter_slots, candidate_slots, duration_minutes) ==
    unique(overlapping(recruiter_slots, candidate_slots, duration_minutes, 1), {})

(***************************************************************************)
(* The calendar collaborator                                               *)
(***************************************************************************)
Slot(t, duration_minutes) ==
    [start |-> isoformat(t), end |-> isoformat(t + duration_minutes)]

RECURSIVE SortedSeq(_)
SortedSeq(S) ==
    IF S = {} THEN << >>
    ELSE LET m == CHOOSE x \in S : \A y \in S : x <= y
         IN  <<m>> \o SortedSeq(S \ {m})

Min(a, b) == IF a < b THEN a ELSE b

\* the half-hour starts the free-busy answers can leave free: Saturday 11:00,
\* Monday 10:00, and Monday 10:00 two weeks later
FreeStarts == {At(1, 11, 0), At(3, 10, 0), At(17, 10, 0)}

\* CalendarClient.get_available_slots: Mon-Fri, 09:00 <= start < 18:00, end <= 18:00
within_working_hours(t, duration_minutes) ==
    /\ WeekdayOf(t) \in {0, 1, 2, 3, 4}
    /\ At(0, 9, 0) <= t % (24 * 60)
    /\ t % (24 * 60) < At(0, 18, 0)
    /\ (t + duration_minutes) % (24 * 60) <= At(0, 18, 0)

\* _in_excluded finding nothing excluded
in_excluded_nothing(slot, excluded) == FALSE

in_excluded(slot, excluded) ==
    \E k \in 1..Len(excluded) : excluded[k].start = slot.start

\* CalendarClient.get_available_slots: the first REAL_SLOT_CAP starts of the
\* window that lie in working hours, are not busy and are not excluded; the busy
\* periods are the free-busy service's answer, so every ascending selection of
\* at most REAL_SLOT_CAP eligible starts is a possible return value
real_get_available_slots(email, duration_minutes, days_ahead, exclude_slots) ==
    LET eligible == {t \in FreeStarts :
                        /\ t < At(days_ahead, 0, 0)
                        /\ within_working_hours(t, duration_minutes)
                        /\ ~in_excluded(Slot(t, duration_minutes), exclude_slots)}
    IN  {[k \in 1..Len(SortedSeq(S)) |-> Slot(SortedSeq(S)[k], duration_minutes)] :
            S \in {X \in SUBSET eligible : Cardinality(X) <= REAL_SLOT_CAP}}

\* MockCalendarClient.get_available_slots: 10:00 and 14:00 of the weekdays among
\* the next four days, cut to six; email, days_ahead and exclude_slots are unused
RECURSIVE mock_slots(_, _)
mock_slots(day_offset, duration_minutes) ==
    IF day_offset > 4 THEN << >>
    ELSE (IF WeekdayOf(At(day_offset, 10, 0)) < 5
          THEN <<Slot(At(day_offset, 10, 0), duration_minutes),
                 Slot(At(day_offset, 14, 0), duration_minutes)>>
          ELSE << >>)
         \o mock_slots(day_offset + 1, duration_minutes)

mock_get_available_slots(email, duration_minutes, days_ahead, exclude_slots) ==
    LET slots == mock_slots(1, duration_minutes)
    IN  {SubSeq(slots, 1, Min(MOCK_SLOT_CAP, Len(slots)))}

\* the values self.calendar.get_available_slots can return
get_available_slots(email, duration_minutes, days_ahead, exclude_slots) ==
    IF calendar = "CalendarClient"
    THEN real_get_available_slots(email, duration_minutes, days_ahead, exclude_slots)
    ELSE mock_get_available_slots(email, duration_minutes, days_ahead, exclude_slots)

\* the values self.calendar.create_event can return: an event, or {"error": ...}
\* when the insert failed (CalendarClient only)
create_event_results ==
    IF calendar = "CalendarClient"
    THEN {[error |-> FALSE, meet_link |-> TRUE], [error |-> TRUE, meet_link |-> FALSE]}
    ELSE {[error |-> FALSE, meet_link |-> TRUE]}

(***************************************************************************)
(* Requests                                                                *)
(***************************************************************************)
Address(local, domain) == [local |-> local, domain |-> domain]

\* the arguments initiate_scheduling is called with
InitiateArgs ==
    {[recruiter_email |-> Address("rita", "corp.com"),
      candidate_email |-> Address("ann", "x.com"),
      job_title |-> "Engineer", duration_minutes |-> 60],
     [recruiter_email |-> Address("omar", "corp.com"),
      candidate_email |-> Address("ann", "y.org"),
      job_title |-> "Analyst", duration_minutes |-> 30]}

\* f"req_{datetime.now().strftime('%Y%m%d%H%M%S')}_{candidate_email.split('@')[0]}"
make_request_id(clock, candidate_email) == [ts |-> clock, local |-> candidate_email.local]

\* the request ids a reply can carry: the ones initiate can make, and strangers
ReplyIds == [ts : 0..MaxClock, local : {"ann"}] \cup {[ts |-> 0, local |-> "zed"]}

\* InterviewRequest(...) with the dataclass defaults
InterviewRequest(recruiter_email, candidate_email, job_title, duration_minutes) ==
    [recruiter_email |-> recruiter_email,
     candidate_email |-> candidate_email,
     job_title |-> job_title,
     duration_minutes |-> duration_minutes,
     conversation_history |-> << >>,
     recruiter_slots |-> << >>,
     candidate_slots |-> << >>,
     confirmed_slot |-> << >>,       \* None is << >>, a slot s is <<s>>
     status |-> "pending"]

(***************************************************************************)
(* E-mail helpers: the message each one hands to self.email.send           *)
(***************************************************************************)
slot_line(s) == [parsed |-> parse_dt(s.start).ok, start |-> s.start, end |-> s.end]

Email(to, kind, retry, slot_lines, tags, meet_link) ==
    [to |-> to, kind |-> kind, retry |-> retry, slot_lines |-> slot_lines,
     tags |-> tags, meet_link |-> meet_link]

\* send_availability_request addressed to the recruiter
send_availability_request_to_recruiter(request_id, request, slots, retry) ==
    <<Email(request.recruiter_email, "availability_request", retry,
            [k \in 1..Min(OFFER_CAP, Len(slots)) |-> slot_line(slots[k])],
            {request_id}, FALSE)>>

send_availability_request(request_id, request, slots, retry) ==
    <<Email(request.candidate_email, "availability_request", retry,
            [k \in 1..Min(OFFER_CAP, Len(slots)) |-> slot_line(slots[k])],
            {request_id}, FALSE)>>

\* send_confirmation sending nothing when the event could not be created
send_confirmation_unless_failed(request, slot, event) ==
    IF event.error THEN << >>
    ELSE <<Email(request.candidate_email, "confirmation_candidate", FALSE,
                 <<slot_line(slot)>>, {}, event.meet_link),
           Email(request.recruiter_email, "confirmation_recruiter", FALSE,
                 <<slot_line(slot)>>, {}, event.meet_link)>>

send_confirmation(request, slot, event) ==
    LET meet_link == ~event.error /\ event.meet_link
    IN  <<Email(request.candidate_email, "confirmation_candidate", FALSE,
                <<slot_line(slot)>>, {}, meet_link),
          Email(request.recruiter_email, "confirmation_recruiter", FALSE,
                <<slot_line(slot)>>, {}, meet_link)>>

\* send_cancellation_notice addressed to the candidate
send_cancellation_notice_to_candidate(request) ==
    <<Email(request.candidate_email, "cancellation", FALSE, << >>, {}, FALSE)>>

send_cancellation_notice(request) ==
    <<Email(request.recruiter_email, "cancellation", FALSE, << >>, {}, FALSE)>>

escalate_to_recruiter(request) ==
    <<Email(request.recruiter_email, "escalation", FALSE, << >>, {}, FALSE)>>

(***************************************************************************)
(* Calendar calls as the agent makes them                                  *)
(***************************************************************************)
GetAvailableSlotsCall(email, duration_minutes, days_ahead, exclude_slots, returned) ==
    [fn |-> "get_available_slots",
     args |-> [email |-> email, duration_minutes |-> duration_minutes,
               days_ahead |-> days_ahead, exclude_slots |-> exclude_slots],
     returned |-> returned]

CreateEventCall(start, end, attendees, returned) ==
    [fn |-> "create_event",
     args |-> [start |-> start, end |-> end, attendees |-> attendees],
     returned |-> returned]

\* what a helper did: the request as it leaves it, the e-mails sent, the
\* calendar calls made, the value returned
Effect(request, sent, calendar_calls, returned) ==
    [request |-> request, sent |-> sent, calendar_calls |-> calendar_calls,
     returned |-> returned, find_overlap_calls |-> 0]

\* the same effect, reached after one call of _find_overlap
AfterFindOverlap(effect) == [effect EXCEPT !.find_overlap_calls = @ + 1]

(***************************************************************************)
(* The negotiation state machine                                           *)
(***************************************************************************)
\* _handle_no_overlap putting the new batch in front of the list
handle_no_overlap_prepending(request_id, request, new_slots) ==
    LET fetch == GetAvailableSlotsCall(request.recruiter_email, request.duration_minutes,
                                       RETRY_DAYS_AHEAD, request.recruiter_slots, new_slots)
    IN  IF new_slots # << >>
        THEN LET extended == [request EXCEPT !.recruiter_slots = new_slots \o @]
             IN  Effect(extended,
                        send_availability_request(request_id, extended, new_slots, TRUE),
                        <<fetch>>,
                        [status |-> "awaiting_candidate", message |-> "Sent alternative times"])
        ELSE LET escalated == [request EXCEPT !.status = "needs_human"]
             IN  Effect(escalated,
                        escalate_to_recruiter(escalated),
                        <<fetch>>,
                        [status |-> "escalated",
                         message |-> "No available slots found - escalated to recruiter"])

\* _handle_no_overlap assigning the new batch instead of extending the list
handle_no_overlap_replacing(request_id, request, new_slots) ==
    LET fetch == GetAvailableSlotsCall(request.recruiter_email, request.duration_minutes,
                                       RETRY_DAYS_AHEAD, request.recruiter_slots, new_slots)
    IN  IF new_slots # << >>
        THEN LET replaced == [request EXCEPT !.recruiter_slots = new_slots]
             IN  Effect(replaced,
                        send_availability_request(request_id, replaced, new_slots, TRUE),
                        <<fetch>>,
                        [status |-> "awaiting_candidate", message |-> "Sent alternative times"])
        ELSE LET escalated == [request EXCEPT !.status = "needs_human"]
             IN  Effect(escalated,
                        escalate_to_recruiter(escalated),
                        <<fetch>>,
                        [status |-> "escalated",
                         message |-> "No available slots found - escalated to recruiter"])

\* _handle_no_overlap; new_slots is what the calendar returned
handle_no_overlap(request_id, request, new_slots) ==
    LET fetch == GetAvailableSlotsCall(request.recruiter_email, request.duration_minutes,
                                       RETRY_DAYS_AHEAD, request.recruiter_slots, new_slots)
    IN  IF new_slots # << >>
        THEN LET extended == [request EXCEPT !.recruiter_slots = @ \o new_slots]
             IN  Effect(extended,
                        send_availability_request(request_id, extended, new_slots, TRUE),
                        <<fetch>>,
                        [status |-> "awaiting_candidate", message |-> "Sent alternative times"])
        ELSE LET escalated == [request EXCEPT !.status = "needs_human"]
             IN  Effect(escalated,
                        escalate_to_recruiter(escalated),
                        <<fetch>>,
                        [status |-> "escalated",
                         message |-> "No available slots found - escalated to recruiter"])

\* _confirm_booking confirming even when no slot is held
confirm_booking_without_slot(request_id, request, event) ==
    IF request.confirmed_slot # << >>
    THEN LET slot == request.confirmed_slot[1]
             confirmed == [request EXCEPT !.status = "confirmed"]
         IN  Effect(confirmed,
                    send_confirmation(confirmed, slot, event),
                    <<CreateEventCall(slot.start, slot.end,
                                      <<request.recruiter_email, request.candidate_email>>,
                                      event)>>,
                    [status |-> "confirmed", slot |-> slot])
    ELSE Effect([request EXCEPT !.status = "confirmed"], << >>, << >>,
                [status |-> "confirmed", message |-> "No slot to confirm"])

\* _confirm_booking; event is what create_event returned
confirm_booking(request_id, request, event) ==
    IF request.confirmed_slot # << >>
    THEN LET slot == request.confirmed_slot[1]
             confirmed == [request EXCEPT !.status = "confirmed"]
         IN  Effect(confirmed,
                    send_confirmation(confirmed, slot, event),
                    <<CreateEventCall(slot.start, slot.end,
                                      <<request.recruiter_email, request.candidate_email>>,
                                      event)>>,
                    [status |-> "confirmed", slot |-> slot])
    ELSE Effect(request, << >>, << >>,
                [status |-> "error", message |-> "No slot to confirm"])

\* _process_candidate_availability booking the last match instead of the first
process_candidate_availability_last_match(request_id, request, candidate_slots, new_slots, event) ==
    LET stored == [request EXCEPT !.candidate_slots = candidate_slots]
        overlap == find_overlap(stored.recruiter_slots, candidate_slots,
                                stored.duration_minutes)
    IN  IF candidate_slots = << >>
        THEN handle_no_overlap(request_id, stored, new_slots)
        ELSE IF overlap # << >>
        THEN LET best_slot == overlap[Len(overlap)]
                 booked == [stored EXCEPT !.confirmed_slot = <<best_slot>>,
                                          !.status = "confirmed"]
             IN  AfterFindOverlap(
                     Effect(booked,
                            send_confirmation(booked, best_slot, event),
                            <<CreateEventCall(best_slot.start, best_slot.end,
                                              <<request.recruiter_email,
                                                request.candidate_email>>,
                                              event)>>,
                            [status |-> "confirmed", slot |-> best_slot,
                             calendar_event |-> event]))
        ELSE AfterFindOverlap(handle_no_overlap(request_id, stored, new_slots))

\* _process_candidate_availability with the emptiness test after the matcher and
\* the extracted slots stored only on that path
process_candidate_availability_matching_first(request_id, request, candidate_slots, new_slots, event) ==
    LET stored == [request EXCEPT !.candidate_slots = candidate_slots]
        overlap == find_overlap(stored.recruiter_slots, candidate_slots,
                                stored.duration_minutes)
    IN  IF candidate_slots = << >>
        THEN AfterFindOverlap(handle_no_overlap(request_id, request, new_slots))
        ELSE IF overlap # << >>
        THEN LET best_slot == overlap[1]
                 booked == [stored EXCEPT !.confirmed_slot = <<best_slot>>,
                                          !.status = "confirmed"]
             IN  AfterFindOverlap(
                     Effect(booked,
                            send_confirmation(booked, best_slot, event),
                            <<CreateEventCall(best_slot.start, best_slot.end,
                                              <<request.recruiter_email,
                                                request.candidate_email>>,
                                              event)>>,
                            [status |-> "confirmed", slot |-> best_slot,
                             calendar_event |-> event]))
        ELSE AfterFindOverlap(handle_no_overlap(request_id, stored, new_slots))

\* _process_candidate_availability
process_candidate_availability(request_id, request, candidate_slots, new_slots, event) ==
    LET stored == [request EXCEPT !.candidate_slots = candidate_slots]
        overlap == find_overlap(stored.recruiter_slots, candidate_slots,
                                stored.duration_minutes)
    IN  IF candidate_slots = << >>
        THEN handle_no_overlap(request_id, stored, new_slots)
        ELSE IF overlap # << >>
        THEN LET best_slot == overlap[1]
                 booked == [stored EXCEPT !.confirmed_slot = <<best_slot>>,
                                          !.status = "confirmed"]
             IN  AfterFindOverlap(
                     Effect(booked,
                            send_confirmation(booked, best_slot, event),
                            <<CreateEventCall(best_slot.start, best_slot.end,
                                              <<request.recruiter_email,
                                                request.candidate_email>>,
                                              event)>>,
                            [status |-> "confirmed", slot |-> best_slot,
                             calendar_event |-> event]))
        ELSE AfterFindOverlap(handle_no_overlap(request_id, stored, new_slots))

\* the dispatch with an unclear reply that carries no slot handled as no overlap
dispatch_retrying_unclear(request_id, request, extracted, new_slots, event) ==
    IF extracted.action = "provide_availability"
    THEN process_candidate_availability(request_id, request, extracted.slots, new_slots, event)
    ELSE IF extracted.action = "confirm"
    THEN confirm_booking(request_id, request, event)
    ELSE IF extracted.action = "decline"
    THEN LET cancelled == [request EXCEPT !.status = "cancelled"]
         IN  Effect(cancelled, send_cancellation_notice(cancelled), << >>,
                    [status |-> "cancelled"])
    ELSE IF extracted.action = "request_other_times"
    THEN handle_no_overlap(request_id, request, new_slots)
    ELSE IF extracted.slots # << >>
    THEN process_candidate_availability(request_id, request, extracted.slots, new_slots, event)
    ELSE handle_no_overlap(request_id, request, new_slots)

\* the dispatch of handle_email_reply on the extracted action
dispatch(request_id, request, extracted, new_slots, event) ==
    IF extracted.action = "provide_availability"
    THEN process_candidate_availability(request_id, request, extracted.slots, new_slots, event)
    ELSE IF extracted.action = "confirm"
    THEN confirm_booking(request_id, request, event)
    ELSE IF extracted.action = "decline"
    THEN LET cancelled == [request EXCEPT !.status = "cancelled"]
         IN  Effect(cancelled, send_cancellation_notice(cancelled), << >>,
                    [status |-> "cancelled"])
    ELSE IF extracted.action = "request_other_times"
    THEN handle_no_overlap(request_id, request, new_slots)
    ELSE IF extracted.slots # << >>
    THEN process_candidate_availability(request_id, request, extracted.slots, new_slots, event)
    ELSE Effect(request, << >>, << >>, [status |-> "awaiting_response"])

(***************************************************************************)
(* What the language model can extract from a reply                        *)
(***************************************************************************)
Monday10 == CandidateSlot(TRUE, 3, "time", At(0, 10, 0), "time", At(0, 11, 0))
Monday10In2Weeks == CandidateSlot(TRUE, 17, "time", At(0, 10, 0), "absent", 0)
MondayRange == CandidateSlot(TRUE, 3, "time", At(0, 9, 30), "time", At(0, 10, 45))
TuesdayNoTime == CandidateSlot(TRUE, 4, "absent", 0, "absent", 0)
Tuesday14 == CandidateSlot(TRUE, 4, "time", At(0, 14, 0), "bad", 0)
Saturday11 == CandidateSlot(TRUE, 8, "time", At(0, 11, 0), "absent", 0)
Undated == CandidateSlot(FALSE, 0, "time", At(0, 10, 0), "absent", 0)

CandidateLists ==
    {<< >>, <<Monday10>>, <<Monday10In2Weeks>>, <<MondayRange>>, <<TuesdayNoTime>>,
     <<Saturday11>>, <<Undated, Tuesday14>>}

Extractions ==
    {[action |-> "provide_availability", slots |-> l] : l \in CandidateLists}
    \cup {[action |-> "request_other_times", slots |-> l] : l \in {<< >>, <<Monday10>>}}
    \cup {[action |-> "unclear", slots |-> l] : l \in {<< >>, <<Monday10>>}}
    \cup {[action |-> a, slots |-> << >>] : a \in {"confirm", "decline"}}

\* replies that try the matcher: a range that leaves exactly the duration
\* of a 30-minute slot and one a minute shorter, lists that match several
\* offered slots, out of their order, or one of them twice
MondayRangeShort == CandidateSlot(TRUE, 3, "time", At(0, 9, 30), "time", At(0, 10, 29))

MatcherLists ==
    {<< >>, <<Monday10>>, <<Monday10In2Weeks>>, <<MondayRange>>, <<MondayRangeShort>>,
     <<TuesdayNoTime>>, <<Saturday11>>, <<Undated, Tuesday14>>,
     <<Tuesday14, Monday10>>, <<Monday10, MondayRange>>}

MatcherExtractions ==
    {[action |-> "provide_availability", slots |-> l] : l \in MatcherLists}

Senders == {Address("ann", "x.com")}

(***************************************************************************)
(* The operations                                                          *)
(***************************************************************************)
NoOp == [op |-> "none", request_id |-> [ts |-> 0, local |-> ""],
         sender |-> Address("", ""), email_body |-> "",
         extracted |-> [action |-> "", slots |-> << >>]]

\* EmailPollingService.__init__: the stop flag is clear and no thread runs
NotStarted == [at |-> "idle", stop |-> FALSE, fetched |-> << >>, replies |-> << >>,
               routed |-> << >>]

Init ==
    /\ calendar \in {"CalendarClient", "MockCalendarClient"}
    /\ now = 0
    /\ active_requests = << >>
    /\ lastOp = NoOp
    /\ result = [status |-> "none"]
    /\ outbox = << >>
    /\ calls = << >>
    /\ llm = 0
    /\ matcher = 0
    /\ initiating = << >>
    /\ inbox = << >>
    /\ poller = NotStarted

\* a second passes
Tick ==
    /\ now < MaxClock
    /\ now' = now + 1
    /\ UNCHANGED <<calendar, active_requests, lastOp, result, outbox, calls, llm, matcher>>
    /\ UNCHANGED threads

\* initiate_scheduling; recruiter_slots is what the calendar returned
initiate_scheduling(a, recruiter_slots) ==
    LET request_id == make_request_id(now, a.candidate_email)
        created == InterviewRequest(a.recruiter_email, a.candidate_email,
                                    a.job_title, a.duration_minutes)
        offered == [created EXCEPT !.recruiter_slots = recruiter_slots]
        request == [offered EXCEPT !.status = "awaiting_candidate"]
    IN  /\ active_requests' =
              [k \in DOMAIN active_requests \cup {request_id} |->
                  IF k = request_id THEN request ELSE active_requests[k]]
        /\ lastOp' = [NoOp EXCEPT !.op = "initiate_scheduling", !.request_id = request_id]
        /\ result' = [request_id |-> request_id, request |-> request]
        /\ outbox' = send_availability_request(request_id, offered, recruiter_slots, FALSE)
        /\ calls' = <<GetAvailableSlotsCall(a.recruiter_email, a.duration_minutes,
                                            INITIAL_DAYS_AHEAD, << >>, recruiter_slots)>>
        /\ llm' = 0
        /\ matcher' = 0
        /\ UNCHANGED <<calendar, now>>

Initiate ==
    \E a \in InitiateArgs :
        \E recruiter_slots \in get_available_slots(a.recruiter_email, a.duration_minutes,
                                                   INITIAL_DAYS_AHEAD, << >>) :
            initiate_scheduling(a, recruiter_slots) /\ UNCHANGED threads

RECURSIVE SumReplies(_)
SumReplies(ids) ==
    IF ids = {} THEN 0
    ELSE LET k == CHOOSE x \in ids : TRUE
         IN  Len(active_requests[k].conversation_history) + SumReplies(ids \ {k})

\* the early return taken only after the reply has been through the language model
unknown_request_after_extraction ==
    [returned |-> [status |-> "error", message |-> "Unknown request ID"],
     sent |-> << >>, calendar_calls |-> << >>, llm_calls |-> 1]

\* the early return of handle_email_reply for an id that is not in active_requests
unknown_request ==
    [returned |-> [status |-> "error", message |-> "Unknown request ID"],
     sent |-> << >>, calendar_calls |-> << >>, llm_calls |-> 0]

\* handle_email_reply putting the new history entry first
handle_email_reply_prepending(request_id, sender, email_body, extracted, new_slots, event) ==
    IF request_id \notin DOMAIN active_requests
    THEN /\ lastOp' = [NoOp EXCEPT !.op = "handle_email_reply",
                                   !.request_id = request_id, !.sender = sender,
                                   !.email_body = email_body]
         /\ result' = unknown_request.returned
         /\ outbox' = unknown_request.sent
         /\ calls' = unknown_request.calendar_calls
         /\ llm' = unknown_request.llm_calls
         /\ matcher' = 0
         /\ UNCHANGED <<calendar, now, active_requests>>
    ELSE LET request == [active_requests[request_id] EXCEPT
                            !.conversation_history =
                                <<[from |-> sender, body |-> email_body]>> \o @]
             done == dispatch(request_id, request, extracted, new_slots, event)
         IN  /\ lastOp' = [op |-> "handle_email_reply", request_id |-> request_id,
                           sender |-> sender, email_body |-> email_body,
                           extracted |-> extracted]
             /\ active_requests' = [active_requests EXCEPT ![request_id] = done.request]
             /\ result' = done.returned
             /\ outbox' = done.sent
             /\ calls' = done.calendar_calls
             /\ llm' = 1
             /\ matcher' = done.find_overlap_calls
             /\ UNCHANGED <<calendar, now>>

\* handle_email_reply with one history list shared by all the requests
handle_email_reply_shared_history(request_id, sender, email_body, extracted, new_slots, event) ==
    IF request_id \notin DOMAIN active_requests
    THEN /\ lastOp' = [NoOp EXCEPT !.op = "handle_email_reply",
                                   !.request_id = request_id, !.sender = sender,
                                   !.email_body = email_body]
         /\ result' = unknown_request.returned
         /\ outbox' = unknown_request.sent
         /\ calls' = unknown_request.calendar_calls
         /\ llm' = unknown_request.llm_calls
         /\ matcher' = 0
         /\ UNCHANGED <<calendar, now, active_requests>>
    ELSE LET request == [active_requests[request_id] EXCEPT
                            !.conversation_history =
                                Append(@, [from |-> sender, body |-> email_body])]
             done == dispatch(request_id, request, extracted, new_slots, event)
         IN  /\ lastOp' = [op |-> "handle_email_reply", request_id |-> request_id,
                           sender |-> sender, email_body |-> email_body,
                           extracted |-> extracted]
             /\ active_requests' =
                   [k \in DOMAIN active_requests |->
                       IF k = request_id THEN done.request
                       ELSE [active_requests[k] EXCEPT
                                !.conversation_history =
                                    Append(@, [from |-> sender, body |-> email_body])]]
             /\ result' = done.returned
             /\ outbox' = done.sent
             /\ calls' = done.calendar_calls
             /\ llm' = 1
             /\ matcher' = done.find_overlap_calls
             /\ UNCHANGED <<calendar, now>>

\* handle_email_reply; extracted is what the language model answers, new_slots
\* and event what the calendar returns, when they are asked
handle_email_reply(request_id, sender, email_body, extracted, new_slots, event) ==
    IF request_id \notin DOMAIN active_requests
    THEN /\ lastOp' = [NoOp EXCEPT !.op = "handle_email_reply",
                                   !.request_id = request_id, !.sender = sender,
                                   !.email_body = email_body]
         /\ result' = unknown_request.returned
         /\ outbox' = unknown_request.sent
         /\ calls' = unknown_request.calendar_calls
         /\ llm' = unknown_request.llm_calls
         /\ matcher' = 0
         /\ UNCHANGED <<calendar, now, active_requests>>
    ELSE LET request == [active_requests[request_id] EXCEPT
                            !.conversation_history =
                                Append(@, [from |-> sender, body |-> email_body])]
             done == dispatch(request_id, request, extracted, new_slots, event)
         IN  /\ lastOp' = [op |-> "handle_email_reply", request_id |-> request_id,
                           sender |-> sender, email_body |-> email_body,
                           extracted |-> extracted]
             /\ active_requests' = [active_requests EXCEPT ![request_id] = done.request]
             /\ result' = done.returned
             /\ outbox' = done.sent
             /\ calls' = done.calendar_calls
             /\ llm' = 1
             /\ matcher' = done.find_overlap_calls
             /\ UNCHANGED <<calendar, now>>

AnEvent == CHOOSE e \in create_event_results : TRUE

\* the calendar is asked only on the paths that reach it
makes_call(request_id, extracted, fn) ==
    LET probe == dispatch(request_id, active_requests[request_id], extracted,
                          << >>, AnEvent)
    IN  \E k \in 1..Len(probe.calendar_calls) : probe.calendar_calls[k].fn = fn

\* a reply to a live request: one of the given (sender, body) pairs arrives
\* and the language model answers with one of the given extractions
KnownReply(replies, extractions) ==
    \E request_id \in ReplyIds \cap DOMAIN active_requests,
       reply \in replies, extracted \in extractions :
        /\ SumReplies(DOMAIN active_requests) < MaxReplies
        /\ \E new_slots \in
                 (IF makes_call(request_id, extracted, "get_available_slots")
                  THEN get_available_slots(
                           active_requests[request_id].recruiter_email,
                           active_requests[request_id].duration_minutes,
                           RETRY_DAYS_AHEAD,
                           active_requests[request_id].recruiter_slots)
                  ELSE {<< >>}),
              event \in
                 (IF makes_call(request_id, extracted, "create_event")
                  THEN create_event_results
                  ELSE {AnEvent}) :
               /\ handle_email_reply(request_id, reply.sender, reply.email_body,
                                     extracted, new_slots, event)
               /\ UNCHANGED threads

HandleKnownReply ==
    KnownReply({[sender |-> s, email_body |-> "reply"] : s \in Senders}, Extractions)

HandleUnknownReply ==
    \E request_id \in ReplyIds \ DOMAIN active_requests, sender \in Senders :
        /\ handle_email_reply(request_id, sender, "reply", NoOp.extracted, << >>, AnEvent)
        /\ UNCHANGED threads

\* one negotiation: every initiate_scheduling call reads the same second of the
\* clock, so they all make the same request id
Next == Initiate \/ HandleKnownReply \/ HandleUnknownReply

Spec == Init /\ [][Next]_vars

\* one negotiation whose replies all state availability
HandleMatcherReply ==
    KnownReply({[sender |-> s, email_body |-> "reply"] : s \in Senders},
               MatcherExtractions)

NextMatcher == Initiate \/ HandleMatcherReply

SpecMatcher == Init /\ [][NextMatcher]_vars

\* replies that try the end of a stated slot: an end before the start, an end
\* at the start, no end, a malformed end, and ends after the start
MondayBackwards == CandidateSlot(TRUE, 3, "time", At(0, 9, 30), "time", At(0, 9, 0))
MondayEmpty == CandidateSlot(TRUE, 3, "time", At(0, 9, 30), "time", At(0, 9, 30))
MondayHalfPast == CandidateSlot(TRUE, 3, "time", At(0, 9, 30), "absent", 0)
MondayBadEnd == CandidateSlot(TRUE, 3, "time", At(0, 9, 30), "bad", 0)

EndLists ==
    {<<MondayRange>>, <<MondayRangeShort>>, <<MondayBackwards>>, <<MondayEmpty>>,
     <<MondayHalfPast>>, <<MondayBadEnd>>, <<TuesdayNoTime>>, <<Undated>>,
     <<MondayBackwards, MondayRange>>, <<Undated, MondayEmpty>>}

EndExtractions ==
    {[action |-> "provide_availability", slots |-> l] : l \in EndLists}

HandleEndReply ==
    KnownReply({[sender |-> s, email_body |-> "reply"] : s \in Senders},
               EndExtractions)

NextEnds == Initiate \/ HandleEndReply

SpecEnds == Init /\ [][NextEnds]_vars

\* one negotiation with replies that differ in sender and text, one extraction
\* for each way through the dispatch
AuditReplies ==
    {[sender |-> Address("ann", "x.com"), email_body |-> "reply"],
     [sender |-> Address("rita", "corp.com"), email_body |-> "fwd"]}

AuditExtractions ==
    {[action |-> "provide_availability", slots |-> l] : l \in {<< >>, <<Monday10>>}}
    \cup {[action |-> a, slots |-> << >>] :
              a \in {"confirm", "decline", "request_other_times", "unclear"}}

HandleAuditReply == KnownReply(AuditReplies, AuditExtractions)

NextAudit == Initiate \/ HandleAuditReply \/ HandleUnknownReply

SpecAudit == Init /\ [][NextAudit]_vars

(***************************************************************************)
(* Collaborators that raise                                                *)
(***************************************************************************)
\* CalendarClient builds its service outside any try block; EmailClient.send
\* catches SMTPException only; LLMClient.complete catches nothing.  The mock
\* calendar never raises.
Raisers == {"calendar", "email", "llm"}

\* initiate_scheduling left by an exception of the calendar or of the send
initiate_scheduling_raising(a, who, recruiter_slots) ==
    LET request_id == make_request_id(now, a.candidate_email)
        created == InterviewRequest(a.recruiter_email, a.candidate_email,
                                    a.job_title, a.duration_minutes)
        offered == [created EXCEPT !.recruiter_slots = recruiter_slots]
        left == IF who = "calendar" THEN created ELSE offered
    IN  /\ who \in {"calendar", "email"}
        /\ who = "calendar" => calendar = "CalendarClient"
        /\ active_requests' =
              [k \in DOMAIN active_requests \cup {request_id} |->
                  IF k = request_id THEN left ELSE active_requests[k]]
        /\ lastOp' = [NoOp EXCEPT !.op = "initiate_scheduling", !.request_id = request_id]
        /\ result' = [raised |-> who]
        /\ outbox' = << >>
        /\ calls' = IF who = "calendar" THEN << >>
                    ELSE <<GetAvailableSlotsCall(a.recruiter_email, a.duration_minutes,
                                                 INITIAL_DAYS_AHEAD, << >>, recruiter_slots)>>
        /\ llm' = 0
        /\ matcher' = 0
        /\ UNCHANGED <<calendar, now>>

\* the request as the dispatch holds it when it makes its first calendar call
before_calendar_call(request, extracted) ==
    IF \/ extracted.action = "provide_availability"
       \/ /\ extracted.action \notin {"confirm", "decline", "request_other_times"}
          /\ extracted.slots # << >>
    THEN LET stored == [request EXCEPT !.candidate_slots = extracted.slots]
             overlap == find_overlap(stored.recruiter_slots, extracted.slots,
                                     stored.duration_minutes)
         IN  IF extracted.slots # << >> /\ overlap # << >>
             THEN [stored EXCEPT !.confirmed_slot = <<overlap[1]>>]
             ELSE stored
    ELSE request

\* handle_email_reply on a live request left by an exception of the language
\* model, of the first calendar call or of the first send
handle_email_reply_raising(request_id, sender, email_body, who, extracted, new_slots, event) ==
    LET request == [active_requests[request_id] EXCEPT
                       !.conversation_history =
                           Append(@, [from |-> sender, body |-> email_body])]
        done == dispatch(request_id, request, extracted, new_slots, event)
        left == IF who = "llm" THEN request
                ELSE IF who = "calendar" THEN before_calendar_call(request, extracted)
                ELSE done.request
    IN  /\ request_id \in DOMAIN active_requests
        /\ who = "calendar" =>
              calendar = "CalendarClient" /\ done.calendar_calls # << >>
        /\ who = "email" => done.sent # << >>
        /\ lastOp' = [op |-> "handle_email_reply", request_id |-> request_id,
                      sender |-> sender, email_body |-> email_body,
                      extracted |-> IF who = "llm" THEN NoOp.extracted ELSE extracted]
        /\ active_requests' = [active_requests EXCEPT ![request_id] = left]
        /\ result' = [raised |-> who]
        /\ outbox' = << >>
        /\ calls' = IF who = "email" THEN done.calendar_calls ELSE << >>
        /\ llm' = 1
        /\ matcher' = IF who = "llm" THEN 0 ELSE done.find_overlap_calls
        /\ UNCHANGED <<calendar, now>>

\* handle_email_reply on a live request when the language model answers with
\* JSON that has no "action": extracted["action"] raises KeyError at line 117,
\* after the reply has been put in the history
handle_email_reply_malformed(request_id, sender, email_body) ==
    /\ request_id \in DOMAIN active_requests
    /\ lastOp' = [op |-> "handle_email_reply", request_id |-> request_id,
                  sender |-> sender, email_body |-> email_body,
                  extracted |-> NoOp.extracted]
    /\ active_requests' =
          [active_requests EXCEPT
              ![request_id].conversation_history =
                  Append(@, [from |-> sender, body |-> email_body])]
    /\ result' = [raised |-> "KeyError"]
    /\ outbox' = << >>
    /\ calls' = << >>
    /\ llm' = 1
    /\ matcher' = 0
    /\ UNCHANGED <<calendar, now>>

InitiateRaises ==
    \E a \in InitiateArgs, who \in Raisers :
        \E recruiter_slots \in get_available_slots(a.recruiter_email, a.duration_minutes,
                                                   INITIAL_DAYS_AHEAD, << >>) :
            initiate_scheduling_raising(a, who, recruiter_slots) /\ UNCHANGED threads

HandleReplyRaises ==
    \E request_id \in ReplyIds \cap DOMAIN active_requests,
       sender \in Senders, who \in Raisers, extracted \in AuditExtractions :
        /\ SumReplies(DOMAIN active_requests) < MaxReplies
        /\ \E new_slots \in
                 (IF who = "email" /\ makes_call(request_id, extracted, "get_available_slots")
                  THEN get_available_slots(
                           active_requests[request_id].recruiter_email,
                           active_requests[request_id].duration_minutes,
                           RETRY_DAYS_AHEAD,
                           active_requests[request_id].recruiter_slots)
                  ELSE {<< >>}),
              event \in
                 (IF who = "email" /\ makes_call(request_id, extracted, "create_event")
                  THEN create_event_results
                  ELSE {AnEvent}) :
               /\ handle_email_reply_raising(request_id, sender, "reply", who,
                                             extracted, new_slots, event)
               /\ UNCHANGED threads

\* one negotiation in which any collaborator call may raise
NextRaising == Initiate \/ HandleAuditReply \/ InitiateRaises \/ HandleReplyRaises

SpecRaising == Init /\ [][NextRaising]_vars

(***************************************************************************)
(* What _extract_availability_with_llm makes of the model's answer         *)
(***************************************************************************)
\* The answer of the language model is a text: a body, with or without a
\* markdown fence around it, with or without prose before and after it.  The
\* body is the text of a JSON value, or braces around what is no JSON, or
\* words without a brace.  Prose and lists hold no brace.
Dict(members) == [type |-> "dict", value |-> members]
NonDict(type) == [type |-> type, value |-> << >>]

JsonText(value) == [valid |-> TRUE, braces |-> value.type = "dict", value |-> value]
BrokenText == [valid |-> FALSE, braces |-> TRUE, value |-> NonDict("none")]
PlainText == [valid |-> FALSE, braces |-> FALSE, value |-> NonDict("none")]

Response(fenced, prose, body) == [fenced |-> fenced, prose |-> prose, body |-> body]

\* response.strip().replace("```json", "").replace("```", "").strip()
clean(response) == [response EXCEPT !.fenced = FALSE]

\* json.loads: the value of a text that is JSON and nothing else, otherwise
\* JSONDecodeError
json_loads(text) ==
    IF ~text.fenced /\ ~text.prose /\ text.body.valid
    THEN [ok |-> TRUE, value |-> text.body.value]
    ELSE [ok |-> FALSE, value |-> NonDict("none")]

\* re.search(r'\{.*\}', response, re.DOTALL): from the first opening brace to
\* the last closing one
search_braces(response) ==
    IF response.body.braces
    THEN [found |-> TRUE, group |-> Response(FALSE, FALSE, response.body)]
    ELSE [found |-> FALSE, group |-> response]

\* the fallback of line 206, without the message it carries along
Fallback == Dict([action |-> "unclear", slots |-> << >>])

\* _extract_availability_with_llm from the answer on: whatever json.loads
\* returns is returned as it is
extract_availability_with_llm(response) ==
    LET whole == json_loads(clean(response))
        json_match == search_braces(response)
    IN  IF whole.ok THEN whole.value
        ELSE IF json_match.found /\ json_loads(json_match.group).ok
        THEN json_loads(json_match.group).value
        ELSE Fallback

\* where handle_email_reply raises on what the extractor returned: .get at
\* line 115 on what is no dict, ["action"] at line 117 and ["slots"] at line
\* 118 on a dict without the key
raises_on(extracted) ==
    IF extracted.type # "dict" THEN "AttributeError"
    ELSE IF "action" \notin DOMAIN extracted.value THEN "KeyError"
    ELSE IF /\ extracted.value.action = "provide_availability"
            /\ "slots" \notin DOMAIN extracted.value
    THEN "KeyError"
    ELSE "nothing"

\* the dict as the dispatch reads it: .get("slots") of line 133 is None, which
\* counts as empty, on a dict without slots
as_read(members) ==
    IF "slots" \in DOMAIN members THEN [action |-> members.action, slots |-> members.slots]
    ELSE [action |-> members.action, slots |-> << >>]

\* handle_email_reply on a live request, from the answer of the language model
handle_email_reply_answered(request_id, sender, email_body, response, new_slots, event) ==
    LET request == [active_requests[request_id] EXCEPT
                       !.conversation_history =
                           Append(@, [from |-> sender, body |-> email_body])]
        extracted == extract_availability_with_llm(response)
    IN  /\ request_id \in DOMAIN active_requests
        /\ llm' = 1
        /\ UNCHANGED <<calendar, now>>
        /\ IF raises_on(extracted) # "nothing"
           THEN /\ lastOp' = [op |-> "handle_email_reply", request_id |-> request_id,
                              sender |-> sender, email_body |-> email_body,
                              extracted |-> NoOp.extracted, response |-> response]
                /\ active_requests' = [active_requests EXCEPT ![request_id] = request]
                /\ result' = [raised |-> raises_on(extracted)]
                /\ outbox' = << >>
                /\ calls' = << >>
                /\ matcher' = 0
           ELSE LET done == dispatch(request_id, request, as_read(extracted.value),
                                     new_slots, event)
                IN  /\ lastOp' = [op |-> "handle_email_reply", request_id |-> request_id,
                                  sender |-> sender, email_body |-> email_body,
                                  extracted |-> as_read(extracted.value),
                                  response |-> response]
                    /\ active_requests' =
                          [active_requests EXCEPT ![request_id] = done.request]
                    /\ result' = done.returned
                    /\ outbox' = done.sent
                    /\ calls' = done.calendar_calls
                    /\ matcher' = done.find_overlap_calls

\* the bodies the language model answers with: objects as the prompt asks for
\* them, objects that lack a key, values that are no object, and no JSON
AnsweredBodies ==
    {JsonText(Dict(e)) :
        e \in {[action |-> "provide_availability", slots |-> <<Monday10>>],
               [action |-> "decline", slots |-> << >>],
               [action |-> "unclear", slots |-> << >>]}}
    \cup {JsonText(Dict([message |-> "m"])),
          JsonText(Dict([slots |-> <<Monday10>>])),
          JsonText(Dict([action |-> "provide_availability"])),
          JsonText(Dict([action |-> "unclear"]))}
    \cup {JsonText(NonDict(t)) : t \in {"list", "str", "NoneType"}}
    \cup {BrokenText, PlainText}

Responses == {Response(f, p, b) : f \in BOOLEAN, p \in BOOLEAN, b \in AnsweredBodies}

\* a reply to a live request, answered by the language model with any of the
\* responses
HandleAnsweredReply ==
    \E request_id \in ReplyIds \cap DOMAIN active_requests,
       sender \in Senders, response \in Responses :
        LET extracted == extract_availability_with_llm(response)
            reaches(fn) == /\ raises_on(extracted) = "nothing"
                           /\ makes_call(request_id, as_read(extracted.value), fn)
        IN  /\ SumReplies(DOMAIN active_requests) < MaxReplies
            /\ \E new_slots \in
                     (IF reaches("get_available_slots")
                      THEN get_available_slots(
                               active_requests[request_id].recruiter_email,
                               active_requests[request_id].duration_minutes,
                               RETRY_DAYS_AHEAD,
                               active_requests[request_id].recruiter_slots)
                      ELSE {<< >>}),
                  event \in
                     (IF reaches("create_event") THEN create_event_results
                      ELSE {AnEvent}) :
                   /\ handle_email_reply_answered(request_id, sender, "reply",
                                                  response, new_slots, event)
                   /\ UNCHANGED threads

NextAnswered == Initiate \/ HandleAnsweredReply

SpecAnswered == Init /\ [][NextAnswered]_vars

(***************************************************************************)
(* CalendarClient with one open stretch                                    *)
(***************************************************************************)
\* the free-busy answer reports everything busy but Monday from 09:00 to 15:00
OpenStretch == [from |-> At(3, 9, 0), to |-> At(3, 15, 0)]

\* _overlaps_busy, the busy periods being all that is not the open stretch
overlaps_busy(start, end) == start < OpenStretch.from \/ end > OpenStretch.to

\* the while loop of CalendarClient.get_available_slots, from the first half
\* hour that is not busy: it steps by 30 minutes and stops at time_max, at
\* REAL_SLOT_CAP slots, and here where nothing but busy time is left
RECURSIVE generate_slots(_, _, _, _, _)
generate_slots(current, time_max, duration_minutes, exclude_slots, slots) ==
    IF current >= time_max \/ Len(slots) >= REAL_SLOT_CAP \/ current >= OpenStretch.to
    THEN slots
    ELSE generate_slots(
             current + 30, time_max, duration_minutes, exclude_slots,
             IF /\ within_working_hours(current, duration_minutes)
                /\ ~overlaps_busy(current, current + duration_minutes)
                /\ ~in_excluded(Slot(current, duration_minutes), exclude_slots)
             THEN Append(slots, Slot(current, duration_minutes))
             ELSE slots)

open_get_available_slots(email, duration_minutes, days_ahead, exclude_slots) ==
    generate_slots(OpenStretch.from, At(days_ahead, 0, 0), duration_minutes,
                   exclude_slots, << >>)

InitiateOpen ==
    \E a \in InitiateArgs :
        /\ calendar = "CalendarClient"
        /\ initiate_scheduling(a, open_get_available_slots(
                                      a.recruiter_email, a.duration_minutes,
                                      INITIAL_DAYS_AHEAD, << >>))
        /\ UNCHANGED threads

\* a reply to a live request whose retry batches come from the open stretch
OpenReply(replies, extractions) ==
    \E request_id \in ReplyIds \cap DOMAIN active_requests,
       reply \in replies, extracted \in extractions :
        /\ calendar = "CalendarClient"
        /\ SumReplies(DOMAIN active_requests) < MaxReplies
        /\ \E event \in
                 (IF makes_call(request_id, extracted, "create_event")
                  THEN create_event_results
                  ELSE {AnEvent}) :
               /\ handle_email_reply(
                      request_id, reply.sender, reply.email_body, extracted,
                      open_get_available_slots(
                          active_requests[request_id].recruiter_email,
                          active_requests[request_id].duration_minutes,
                          RETRY_DAYS_AHEAD,
                          active_requests[request_id].recruiter_slots),
                      event)
               /\ UNCHANGED threads

HandleOpenReply == OpenReply(AuditReplies, AuditExtractions)

NextOpen == InitiateOpen \/ HandleOpenReply

SpecOpen == Init /\ [][NextOpen]_vars

\* one negotiation whose candidate keeps stating times that match no offer
NonMatchingLists ==
    {<<Saturday11>>, <<TuesdayNoTime>>, <<Tuesday14>>, <<Undated>>, <<Undated, Tuesday14>>}

OpenOnce == active_requests = << >> /\ InitiateOpen

NonMatchingReply ==
    OpenReply(AuditReplies,
              {[action |-> "provide_availability", slots |-> l] : l \in NonMatchingLists})

NextRetry == OpenOnce \/ NonMatchingReply

\* the candidate keeps answering
SpecRetryFair == Init /\ [][NextRetry]_vars /\ WF_vars(NonMatchingReply)

(***************************************************************************)
(* Two negotiations of one recruiter                                       *)
(***************************************************************************)
RecruiterArgs ==
    {[recruiter_email |-> Address("rita", "corp.com"),
      candidate_email |-> Address(c, "x.com"),
      job_title |-> "Engineer", duration_minutes |-> 60] : c \in {"ann", "zed"}}

\* the starts the recruiter's calendar holds an interview at: the free-busy
\* answer of CalendarClient reports them busy
EventStarts(email) ==
    {parse_dt(active_requests[id].confirmed_slot[1].start).t :
        id \in {k \in DOMAIN active_requests :
                   /\ active_requests[k].recruiter_email = email
                   /\ active_requests[k].status = "confirmed"
                   /\ active_requests[k].confirmed_slot # << >>}}

InitiateForRecruiter ==
    \E a \in RecruiterArgs :
        \E recruiter_slots \in get_available_slots(a.recruiter_email, a.duration_minutes,
                                                   INITIAL_DAYS_AHEAD, << >>) :
            /\ calendar = "CalendarClient" =>
                   \A k \in 1..Len(recruiter_slots) :
                       parse_dt(recruiter_slots[k].start).t
                           \notin EventStarts(a.recruiter_email)
            /\ initiate_scheduling(a, recruiter_slots)
            /\ UNCHANGED threads

RecruiterExtractions ==
    {[action |-> "provide_availability", slots |-> l] :
        l \in {<<Monday10>>, <<Tuesday14>>, <<Saturday11>>}}
    \cup {[action |-> "decline", slots |-> << >>]}

HandleRecruiterReply ==
    KnownReply({[sender |-> s, email_body |-> "reply"] : s \in Senders},
               RecruiterExtractions)

NextRecruiter == InitiateForRecruiter \/ HandleRecruiterReply

SpecRecruiter == Init /\ [][NextRecruiter]_vars

(***************************************************************************)
(* initiate_scheduling statement by statement, beside the polling thread   *)
(***************************************************************************)
\* nothing guards active_requests: the caller's thread runs initiate_scheduling
\* while the polling thread runs handle_email_reply, and the two interleave
\* between any two statements
Running(request_id) ==
    [NoOp EXCEPT !.op = "initiate_scheduling", !.request_id = request_id]

\* lines 83-84: the id is made and the new request stored
InitiateStore ==
    \E a \in InitiateArgs :
        LET request_id == make_request_id(now, a.candidate_email)
            created == InterviewRequest(a.recruiter_email, a.candidate_email,
                                        a.job_title, a.duration_minutes)
        IN  /\ initiating = << >>
            /\ initiating' = <<[a |-> a, request_id |-> request_id, at |-> "stored",
                                slots |-> << >>]>>
            /\ active_requests' =
                  [k \in DOMAIN active_requests \cup {request_id} |->
                      IF k = request_id THEN created ELSE active_requests[k]]
            /\ lastOp' = Running(request_id)
            /\ result' = [status |-> "running"]
            /\ outbox' = << >>
            /\ calls' = << >>
            /\ llm' = 0
            /\ matcher' = 0
            /\ UNCHANGED <<calendar, now, inbox, poller>>

\* lines 87-92: the calendar is asked and its answer assigned to the request
InitiateFetch ==
    /\ initiating # << >>
    /\ initiating[1].at = "stored"
    /\ LET call == initiating[1]
       IN  \E recruiter_slots \in get_available_slots(call.a.recruiter_email,
                                                      call.a.duration_minutes,
                                                      INITIAL_DAYS_AHEAD, << >>) :
              /\ initiating' = <<[call EXCEPT !.at = "fetched", !.slots = recruiter_slots]>>
              /\ active_requests' = [active_requests EXCEPT
                                        ![call.request_id].recruiter_slots = recruiter_slots]
              /\ lastOp' = Running(call.request_id)
              /\ result' = [status |-> "running"]
              /\ outbox' = << >>
              /\ calls' = <<GetAvailableSlotsCall(call.a.recruiter_email,
                                                  call.a.duration_minutes,
                                                  INITIAL_DAYS_AHEAD, << >>,
                                                  recruiter_slots)>>
              /\ llm' = 0
              /\ matcher' = 0
              /\ UNCHANGED <<calendar, now, inbox, poller>>

\* line 95: the offer is sent
InitiateSend ==
    /\ initiating # << >>
    /\ initiating[1].at = "fetched"
    /\ LET call == initiating[1]
       IN  /\ initiating' = <<[call EXCEPT !.at = "sent"]>>
           /\ lastOp' = Running(call.request_id)
           /\ result' = [status |-> "running"]
           /\ outbox' = send_availability_request(call.request_id,
                                                  active_requests[call.request_id],
                                                  call.slots, FALSE)
           /\ calls' = << >>
           /\ llm' = 0
           /\ matcher' = 0
           /\ UNCHANGED <<calendar, now, active_requests, inbox, poller>>

\* lines 96-99: the status is written and the call returns
InitiateFinish ==
    /\ initiating # << >>
    /\ initiating[1].at = "sent"
    /\ LET call == initiating[1]
           request == [active_requests[call.request_id] EXCEPT
                          !.status = "awaiting_candidate"]
       IN  /\ initiating' = << >>
           /\ active_requests' = [active_requests EXCEPT ![call.request_id] = request]
           /\ lastOp' = Running(call.request_id)
           /\ result' = [request_id |-> call.request_id, request |-> request]
           /\ outbox' = << >>
           /\ calls' = << >>
           /\ llm' = 0
           /\ matcher' = 0
           /\ UNCHANGED <<calendar, now, inbox, poller>>

NextThreads ==
    \/ InitiateStore
    \/ InitiateFetch
    \/ InitiateSend
    \/ InitiateFinish
    \/ HandleAuditReply

SpecThreads == Init /\ [][NextThreads]_vars

(***************************************************************************)
(* Text, and the request id in it                                          *)
(***************************************************************************)
\* a text is a sequence of characters, each a string of length one
LowerCase == <<"a", "b", "c", "d", "e", "f", "g", "h", "i", "j", "k", "l", "m",
               "n", "o", "p", "q", "r", "s", "t", "u", "v", "w", "x", "y", "z">>
UpperCase == <<"A", "B", "C", "D", "E", "F", "G", "H", "I", "J", "K", "L", "M",
               "N", "O", "P", "Q", "R", "S", "T", "U", "V", "W", "X", "Y", "Z">>
DigitChars == <<"0", "1", "2", "3", "4", "5", "6", "7", "8", "9">>

Range(seq) == {seq[k] : k \in 1..Len(seq)}

\* \w, \s and [\w\-] of the regular expressions
WordChars == Range(LowerCase) \cup Range(UpperCase) \cup Range(DigitChars) \cup {"_"}
SpaceChars == {" ", "\n", "\t"}
TokenChars == WordChars \cup {"-"}

\* re.IGNORECASE
lower(c) ==
    IF c \in Range(UpperCase)
    THEN LowerCase[CHOOSE k \in 1..Len(UpperCase) : UpperCase[k] = c]
    ELSE c

\* the literal is at position i of the text
literal_at(text, i, literal, ignore_case) ==
    /\ i >= 1
    /\ i + Len(literal) - 1 <= Len(text)
    /\ \A k \in 1..Len(literal) :
           IF ignore_case THEN lower(text[i + k - 1]) = lower(literal[k])
           ELSE text[i + k - 1] = literal[k]

\* where the longest run of characters of the class that starts at i ends;
\* i - 1 when there is none
RECURSIVE run_end(_, _, _)
run_end(text, i, class) ==
    IF i <= Len(text) /\ text[i] \in class THEN run_end(text, i + 1, class) ELSE i - 1

\* \b between positions k and k + 1
word_boundary(text, k) ==
    LET left == k >= 1 /\ text[k] \in WordChars
        right == k + 1 <= Len(text) /\ text[k + 1] \in WordChars
    IN  left # right

NoMatch == << >>

\* r"\[Request\s+ID:\s*(req_[\w\-]+)\]" with re.IGNORECASE, tried at position i
tagged_at(text, i) ==
    LET spaces == run_end(text, i + 8, SpaceChars)
        colon == run_end(text, spaces + 4, SpaceChars)
        last == run_end(text, colon + 5, TokenChars)
    IN  IF /\ literal_at(text, i, <<"[", "R", "e", "q", "u", "e", "s", "t">>, TRUE)
           /\ spaces >= i + 8
           /\ literal_at(text, spaces + 1, <<"I", "D", ":">>, TRUE)
           /\ literal_at(text, colon + 1, <<"r", "e", "q", "_">>, TRUE)
           /\ last >= colon + 5
           /\ literal_at(text, last + 1, <<"]">>, FALSE)
        THEN SubSeq(text, colon + 1, last)
        ELSE NoMatch

\* r"\b(req_[\w\-]+)\b", tried at position i: the longest run that ends at a
\* word boundary
bare_at(text, i) ==
    LET last == run_end(text, i + 4, TokenChars)
        ends == {k \in (i + 4)..last : word_boundary(text, k)}
    IN  IF /\ word_boundary(text, i - 1)
           /\ literal_at(text, i, <<"r", "e", "q", "_">>, FALSE)
           /\ ends # {}
        THEN SubSeq(text, i, CHOOSE k \in ends : \A m \in ends : m <= k)
        ELSE NoMatch

\* r"req[_\-]([\w\-]+)" with re.IGNORECASE, tried at position i; "req_" is put
\* in front of the group
loose_at(text, i) ==
    LET last == run_end(text, i + 4, TokenChars)
    IN  IF /\ literal_at(text, i, <<"r", "e", "q">>, TRUE)
           /\ i + 3 <= Len(text)
           /\ text[i + 3] \in {"_", "-"}
           /\ last >= i + 4
        THEN <<"r", "e", "q", "_">> \o SubSeq(text, i + 4, last)
        ELSE NoMatch

\* re.search: the match at the leftmost position that has one
first_tagged(text) ==
    LET at == {i \in 1..Len(text) : tagged_at(text, i) # NoMatch}
    IN  IF at = {} THEN NoMatch
        ELSE tagged_at(text, CHOOSE i \in at : \A k \in at : i <= k)

first_bare(text) ==
    LET at == {i \in 1..Len(text) : bare_at(text, i) # NoMatch}
    IN  IF at = {} THEN NoMatch
        ELSE bare_at(text, CHOOSE i \in at : \A k \in at : i <= k)

first_loose(text) ==
    LET at == {i \in 1..Len(text) : loose_at(text, i) # NoMatch}
    IN  IF at = {} THEN NoMatch
        ELSE loose_at(text, CHOOSE i \in at : \A k \in at : i <= k)

\* _extract_request_id; None is the empty sequence
None == << >>

\* _extract_request_id trying the bare pattern before the tagged one
extract_request_id_bare_first(text) ==
    IF text = << >> THEN None
    ELSE IF first_bare(text) # NoMatch THEN first_bare(text)
    ELSE IF first_tagged(text) # NoMatch THEN first_tagged(text)
    ELSE IF first_loose(text) # NoMatch THEN first_loose(text)
    ELSE None

extract_request_id(text) ==
    IF text = << >> THEN None
    ELSE IF first_tagged(text) # NoMatch THEN first_tagged(text)
    ELSE IF first_bare(text) # NoMatch THEN first_bare(text)
    ELSE IF first_loose(text) # NoMatch THEN first_loose(text)
    ELSE None

\* the characters of the local part of an address
chars(local) ==
    CASE local = "ann" -> <<"a", "n", "n">>
      [] local = "zed" -> <<"z", "e", "d">>
      [] local = "jo.e" -> <<"j", "o", ".", "e">>
      [] local = "jo" -> <<"j", "o">>
      [] local = "a+b" -> <<"a", "+", "b">>
      [] OTHER -> << >>

\* the request id as the string initiate_scheduling formats: "req_", the
\* timestamp (its last digit stands for the fourteen), "_", the local part
request_id_string(request_id) ==
    <<"r", "e", "q", "_">> \o <<DigitChars[request_id.ts + 1]>> \o <<"_">>
        \o chars(request_id.local)

\* the tagged line of the offer, f"[Request ID: {request_id}]"
tagged_line(token) ==
    <<"[", "R", "e", "q", "u", "e", "s", "t", " ", "I", "D", ":", " ">> \o token \o <<"]">>

(***************************************************************************)
(* Replies as they arrive                                                  *)
(***************************************************************************)
\* the candidates whose replies are received
Correspondents ==
    {Address("ann", "x.com"), Address("jo.e", "x.com"), Address("a+b", "x.com")}

\* the ids initiate_scheduling makes for them
OfferedIds == {make_request_id(c, a) : c \in 0..MaxClock, a \in Correspondents}

\* what a mail program puts around the text it answers
Answer == <<"o", "k", "\n">>
Wrappings == {"appended", "quoted", "quoted twice", "own line"}
wrap(wrapping, line) ==
    CASE wrapping = "appended" -> Answer \o <<"\n">> \o line
      [] wrapping = "quoted" -> Answer \o <<">", " ">> \o line
      [] wrapping = "quoted twice" -> Answer \o <<">", " ", ">", " ">> \o line \o <<"\n">>
      [] wrapping = "own line" -> line \o <<"\n">> \o Answer

\* replies that answer an offer, keeping its tagged line
AnswersToOffers ==
    {wrap(w, tagged_line(request_id_string(id))) : w \in Wrappings, id \in OfferedIds}

\* tokens of the pattern req_[\w\-]+
Tokens ==
    {<<"r", "e", "q", "_", "0", "_", "a", "n", "n">>,
     <<"r", "e", "q", "_", "1", "_", "z", "e", "d">>,
     <<"r", "e", "q", "_", "a", "-", "b">>}

\* the same token written loosely: in capitals, or with a hyphen after req
capitals(token) == <<"R", "E", "Q", "_">> \o SubSeq(token, 5, Len(token))
hyphened(token) == <<"r", "e", "q", "-">> \o SubSeq(token, 5, Len(token))

bare_then_tagged(t2, t1) == <<"r", "e", " ">> \o t2 \o <<"\n", ">", " ">> \o tagged_line(t1)
tagged_then_bare(t1, t2) == tagged_line(t1) \o <<" ", "c", "c", " ">> \o t2
loose_then_tagged(t3, t1) == capitals(t3) \o <<"\n">> \o tagged_line(t1)
bare_only(t2) == Answer \o <<"(">> \o t2 \o <<")", ".">>
loose_then_bare(t3, t2) == hyphened(t3) \o <<",", " ">> \o t2
loose_only(t3, form) ==
    Answer \o (IF form = "capitals" THEN capitals(t3) ELSE hyphened(t3)) \o <<"!">>

\* texts in which none of the three patterns finds anything
Tokenless ==
    {Answer,
     <<"[", "R", "e", "q", "u", "e", "s", "t", " ", "I", "D", ":", " ", "]">>,
     <<"p", "r", "e", "r", "e", "q", " ", "r", "e", "q", "_">>}

MixedTexts ==
    {bare_then_tagged(t2, t1) : t2 \in Tokens, t1 \in Tokens}
    \cup {tagged_then_bare(t1, t2) : t1 \in Tokens, t2 \in Tokens}
    \cup {loose_then_tagged(t3, t1) : t3 \in Tokens, t1 \in Tokens}
    \cup {bare_only(t2) : t2 \in Tokens}
    \cup {loose_then_bare(t3, t2) : t3 \in Tokens, t2 \in Tokens}
    \cup {loose_only(t3, form) : t3 \in Tokens, form \in {"capitals", "hyphen"}}
    \cup Tokenless

Subject == <<"R", "e">>

\* _parse_raw_email: the id is looked for in body + " " + subject
parse_raw_email(sender, body) ==
    [sender |-> sender, body |-> body,
     request_id |-> extract_request_id(body \o <<" ">> \o Subject)]

\* a message reaches the mailbox and is parsed
Receive(texts, bound) ==
    \E body \in texts, sender \in Senders :
        /\ Len(inbox) < bound
        /\ inbox' = Append(inbox, parse_raw_email(sender, body))
        /\ UNCHANGED <<calendar, now, active_requests, lastOp, result, outbox, calls,
                       llm, matcher, initiating, poller>>

ReceiveAnswer == Receive(AnswersToOffers, MaxTexts)

ReceiveMixed == Receive(MixedTexts, MaxTexts)

\* the mailbox alone
NextMail == ReceiveAnswer \/ ReceiveMixed

SpecMail == Init /\ [][NextMail]_vars

(***************************************************************************)
(* The polling service                                                     *)
(***************************************************************************)
\* the request the id string of a message is the key of, if any
Strangers == [ts |-> 0, local |-> "?"]
key_of(token) ==
    LET named == {id \in [ts : 0..MaxClock, local : {"ann", "zed", "jo.e", "jo", "a+b"}] :
                      request_id_string(id) = token}
    IN  IF named = {} THEN Strangers ELSE CHOOSE id \in named : TRUE

\* what reaches the mailbox: an answer to the offer of a live request, an
\* answer that quotes the id of no request, a message without any id
PollerTexts ==
    {wrap("quoted", tagged_line(request_id_string([ts |-> 0, local |-> l]))) :
         l \in {"ann", "zed"}}
    \cup {Answer}

PollerExtractions == {[action |-> "decline", slots |-> << >>]}

\* the one negotiation the replies belong to is opened
Open ==
    \E a \in {x \in InitiateArgs : x.duration_minutes = 60} :
        \E recruiter_slots \in get_available_slots(a.recruiter_email, a.duration_minutes,
                                                   INITIAL_DAYS_AHEAD, << >>) :
            /\ active_requests = << >>
            /\ initiate_scheduling(a, recruiter_slots)
            /\ UNCHANGED threads

\* messages in the mailbox and in the hands of the polling thread
Pending == Len(inbox) + Len(poller.fetched)

Deliver ==
    /\ SumReplies(DOMAIN active_requests) + Pending < MaxMail
    /\ Receive(PollerTexts, MaxMail)

\* start(): the thread enters _poll_loop
Start ==
    /\ poller.at = "idle"
    /\ poller' = [poller EXCEPT !.at = "test"]
    /\ UNCHANGED <<calendar, now, active_requests, lastOp, result, outbox, calls,
                   llm, matcher, initiating, inbox>>

\* stop(): the flag is set, from the caller's thread
Stop ==
    /\ ~poller.stop
    /\ poller' = [poller EXCEPT !.stop = TRUE]
    /\ UNCHANGED <<calendar, now, active_requests, lastOp, result, outbox, calls,
                   llm, matcher, initiating, inbox>>

\* the loop going on whatever the flag says
loop_continues_regardless(p) == TRUE

\* while not self._stop.is_set()
loop_continues(p) == ~p.stop

\* the test of the while loop: a tick begins, or the loop and the thread end
PollTest ==
    /\ poller.at = "test"
    /\ poller' = [poller EXCEPT !.at = IF loop_continues(poller) THEN "fetch" ELSE "exited"]
    /\ UNCHANGED <<calendar, now, active_requests, lastOp, result, outbox, calls,
                   llm, matcher, initiating, inbox>>

\* replies = self.email.fetch_new_replies(): the mailbox is emptied
PollFetch ==
    /\ poller.at = "fetch"
    /\ poller' = [poller EXCEPT !.at = "route", !.fetched = inbox, !.replies = inbox,
                                !.routed = << >>]
    /\ inbox' = << >>
    /\ UNCHANGED <<calendar, now, active_requests, lastOp, result, outbox, calls,
                   llm, matcher, initiating>>

\* if reply.request_id:
routes(reply) == reply.request_id # None

\* one turn of the for loop on a message with an id: handle_email_reply
PollRoute ==
    /\ poller.at = "route"
    /\ poller.replies # << >>
    /\ routes(Head(poller.replies))
    /\ LET reply == Head(poller.replies)
           request_id == key_of(reply.request_id)
       IN  /\ poller' = [poller EXCEPT !.replies = Tail(@), !.routed = Append(@, reply)]
           /\ UNCHANGED <<initiating, inbox>>
           /\ IF request_id \in DOMAIN active_requests
              THEN \E extracted \in PollerExtractions :
                       \E new_slots \in
                              (IF makes_call(request_id, extracted, "get_available_slots")
                               THEN get_available_slots(
                                        active_requests[request_id].recruiter_email,
                                        active_requests[request_id].duration_minutes,
                                        RETRY_DAYS_AHEAD,
                                        active_requests[request_id].recruiter_slots)
                               ELSE {<< >>}),
                          event \in
                              (IF makes_call(request_id, extracted, "create_event")
                               THEN create_event_results
                               ELSE {AnEvent}) :
                           handle_email_reply(request_id, reply.sender, reply.body,
                                              extracted, new_slots, event)
              ELSE handle_email_reply(request_id, reply.sender, reply.body,
                                      NoOp.extracted, << >>, AnEvent)

\* the same turn when handle_email_reply raises: nothing in _check_inbox or
\* _poll_loop catches, the thread ends and the rest of the batch with it
PollRouteRaises ==
    /\ poller.at = "route"
    /\ poller.replies # << >>
    /\ routes(Head(poller.replies))
    /\ LET reply == Head(poller.replies)
       IN  /\ poller' = [poller EXCEPT !.at = "died", !.replies = Tail(@),
                                       !.routed = Append(@, reply)]
           /\ handle_email_reply_malformed(key_of(reply.request_id), reply.sender,
                                           reply.body)
           /\ UNCHANGED <<initiating, inbox>>

\* one turn of the for loop on a message without an id: it is skipped
PollSkip ==
    /\ poller.at = "route"
    /\ poller.replies # << >>
    /\ ~routes(Head(poller.replies))
    /\ poller' = [poller EXCEPT !.replies = Tail(@)]
    /\ UNCHANGED <<calendar, now, active_requests, lastOp, result, outbox, calls,
                   llm, matcher, initiating, inbox>>

\* _check_inbox returns and the thread waits on the flag
PollSleep ==
    /\ poller.at = "route"
    /\ poller.replies = << >>
    /\ poller' = [poller EXCEPT !.at = "wait"]
    /\ UNCHANGED <<calendar, now, active_requests, lastOp, result, outbox, calls,
                   llm, matcher, initiating, inbox>>

\* self._stop.wait(self.poll_interval) returns: the interval is over, or the
\* flag is set; what the last tick fetched is gone
PollWake ==
    /\ poller.at = "wait"
    /\ poller' = [poller EXCEPT !.at = "test", !.fetched = << >>, !.routed = << >>]
    /\ UNCHANGED <<calendar, now, active_requests, lastOp, result, outbox, calls,
                   llm, matcher, initiating, inbox>>

\* the steps of the polling thread
PollerThread ==
    PollTest \/ PollFetch \/ PollRoute \/ PollRouteRaises \/ PollSkip \/ PollSleep
        \/ PollWake

NextPoller == Open \/ Deliver \/ Start \/ Stop \/ PollerThread

SpecPoller == Init /\ [][NextPoller]_vars

\* the polling thread is never kept from running, and the calls it makes return
SpecPollerFair == Init /\ [][NextPoller]_vars /\ WF_vars(PollerThread)

(***************************************************************************)
(* The mailbox between the caller and the polling thread                   *)
(***************************************************************************)
\* the texts the caller injects
SimulatedBodies == {<<"a">>, <<"b">>}

\* FakeEmail(...) as simulate_reply builds it: the tagged line is appended to
\* the body and the id is set as it was given
FakeEmail(sender, body, request_id) ==
    [sender |-> sender,
     body |-> body \o <<"\n", "\n">> \o tagged_line(request_id_string(request_id)),
     request_id |-> request_id_string(request_id)]

\* the replies that are in the mailbox, with the polling thread, or handled
Known ==
    Range(inbox) \cup Range(poller.fetched)
        \cup {[sender |-> h.from, body |-> h.body,
               request_id |-> request_id_string(id)] :
                  <<id, h>> \in UNION {{id} \X Range(active_requests[id].conversation_history) :
                                          id \in DOMAIN active_requests}}

\* simulate_reply, from the caller's thread: pending_replies.append(...); the
\* caller injects each text once while the one before is about
Simulate ==
    \E request_id \in DOMAIN active_requests, sender \in Senders, body \in SimulatedBodies :
        /\ SumReplies(DOMAIN active_requests) + Pending < MaxMail
        /\ FakeEmail(sender, body, request_id) \notin Known
        /\ inbox' = Append(inbox, FakeEmail(sender, body, request_id))
        /\ UNCHANGED <<calendar, now, active_requests, lastOp, result, outbox, calls,
                       llm, matcher, initiating, poller>>

\* fetch_new_replies, first statement: replies = self.pending_replies.copy()
PollCopy ==
    /\ poller.at = "fetch"
    /\ poller' = [poller EXCEPT !.at = "clear", !.fetched = inbox, !.replies = inbox,
                                !.routed = << >>]
    /\ UNCHANGED <<calendar, now, active_requests, lastOp, result, outbox, calls,
                   llm, matcher, initiating, inbox>>

\* fetch_new_replies, second statement: self.pending_replies.clear(), then the
\* copy is returned
PollClear ==
    /\ poller.at = "clear"
    /\ poller' = [poller EXCEPT !.at = "route"]
    /\ inbox' = << >>
    /\ UNCHANGED <<calendar, now, active_requests, lastOp, result, outbox, calls,
                   llm, matcher, initiating>>

\* the steps of the polling thread, fetch_new_replies statement by statement
MailboxThread ==
    PollTest \/ PollCopy \/ PollClear \/ PollRoute \/ PollSleep \/ PollWake

NextMailbox == Open \/ Simulate \/ Start \/ Stop \/ MailboxThread

\* the polling thread is never kept from running, and the calls it makes return
SpecMailboxFair == Init /\ [][NextMailbox]_vars /\ WF_vars(MailboxThread)

\* several negotiations: the clock advances between calls
NextClock == Tick \/ Next

SpecClock == Init /\ [][NextClock]_vars

(***************************************************************************)
(* Vocabulary of the properties                                            *)
(***************************************************************************)
\* the step is a handle_email_reply call on the live request id
Replied(id) ==
    /\ id \in DOMAIN active_requests
    /\ id \in DOMAIN active_requests'
    /\ lastOp'.op = "handle_email_reply"
    /\ lastOp'.request_id = id
    /\ Len(active_requests'[id].conversation_history)
           = Len(active_requests[id].conversation_history) + 1

SentKinds(sent) == {sent[k].kind : k \in 1..Len(sent)}
CalledFns(made) == {made[k].fn : k \in 1..Len(made)}
ConfirmationKinds == {"confirmation_candidate", "confirmation_recruiter"}

(***************************************************************************)
(* C1: once a request's status is confirmed or cancelled, no                *)
(* handle_email_reply call gives it another status.                        *)
(***************************************************************************)
C1_NoTransitionOutOfConfirmedOrCancelled ==
    [][\A id \in DOMAIN active_requests :
          (Replied(id) /\ active_requests[id].status \in {"confirmed", "cancelled"})
              => active_requests'[id].status = active_requests[id].status]_vars

(***************************************************************************)
(* C2: between operations, a request's confirmed_slot is set if and only   *)
(* if its status is confirmed.                                             *)
(***************************************************************************)
C2_ConfirmedSlotIffConfirmed ==
    \A id \in DOMAIN active_requests :
        (active_requests[id].confirmed_slot # << >>)
            <=> (active_requests[id].status = "confirmed")

(***************************************************************************)
(* C3: when a request is already confirmed, handling the same reply again  *)
(* (same sender, text, extracted action and slots) leaves confirmed_slot   *)
(* as it is, creates no calendar event and sends no confirmation.          *)
(***************************************************************************)
C3_RepeatedReplyAfterConfirmationIsNoOp ==
    [][\A id \in DOMAIN active_requests :
          (/\ Replied(id)
           /\ lastOp' = lastOp
           /\ active_requests[id].status = "confirmed")
              => /\ active_requests'[id].confirmed_slot = active_requests[id].confirmed_slot
                 /\ "create_event" \notin CalledFns(calls')
                 /\ SentKinds(outbox') \cap ConfirmationKinds = {}]_vars

(***************************************************************************)
(* The matching rules as the specification words them, for one (offered,   *)
(* respondent) pair of a negotiation with the given duration               *)
(***************************************************************************)
Parseable(rs, cs, d) ==
    /\ parse_dt(rs.start).ok /\ parse_dt(rs.end).ok
    /\ parse_candidate_slot_start(cs).ok /\ parse_candidate_slot_end(cs, d).ok

OStart(rs) == parse_dt(rs.start).t
OEnd(rs) == parse_dt(rs.end).t
RStart(cs) == parse_candidate_slot_start(cs).t
REnd(cs, d) == parse_candidate_slot_end(cs, d).t

\* the half-open intervals [start, end) of the two slots have a common instant
Intersects(rs, cs, d) ==
    Parseable(rs, cs, d) /\ OStart(rs) < REnd(cs, d) /\ RStart(cs) < OEnd(rs)

Tier1(rs, cs, d) ==
    /\ Parseable(rs, cs, d)
    /\ DateOf(OStart(rs)) = DateOf(RStart(cs))
    /\ HourOf(OStart(rs)) = HourOf(RStart(cs))

Tier2(rs, cs, d) ==
    /\ Parseable(rs, cs, d)
    /\ WeekdayOf(OStart(rs)) = WeekdayOf(RStart(cs))
    /\ HourOf(OStart(rs)) = HourOf(RStart(cs))

Tier3(rs, cs, d) ==
    /\ Parseable(rs, cs, d)
    /\ DateOf(OStart(rs)) = DateOf(RStart(cs))
    /\ HourOf(RStart(cs)) = 0

Tier4(rs, cs, d) ==
    /\ Parseable(rs, cs, d)
    /\ Min(OEnd(rs), REnd(cs, d))
           - (IF OStart(rs) > RStart(cs) THEN OStart(rs) ELSE RStart(cs)) >= d

AnyTier(rs, cs, d) ==
    Tier1(rs, cs, d) \/ Tier2(rs, cs, d) \/ Tier3(rs, cs, d) \/ Tier4(rs, cs, d)

Pairs(offered, stated) == (1..Len(offered)) \X (1..Len(stated))

\* the reply's extracted slots are handed to the matcher
CarriesSlots(extracted) == extracted.action \in {"provide_availability", "unclear"}

(***************************************************************************)
(* C4 as claimed: when no offered interval intersects any respondent       *)
(* interval, _find_overlap returns the empty sequence and the reply leaves *)
(* the request awaiting the candidate or in needs_human.                   *)
(***************************************************************************)
C4_DisjointIntervalsNeverMatch ==
    [][\A id \in DOMAIN active_requests :
          LET r == active_requests[id]
              stated == lastOp'.extracted.slots
          IN  (/\ Replied(id)
               /\ CarriesSlots(lastOp'.extracted)
               /\ \A p \in Pairs(r.recruiter_slots, stated) :
                      ~Intersects(r.recruiter_slots[p[1]], stated[p[2]], r.duration_minutes))
                  => /\ find_overlap(r.recruiter_slots, stated, r.duration_minutes) = << >>
                     /\ active_requests'[id].status
                            \in {"awaiting_candidate", "needs_human"}]_vars

(***************************************************************************)
(* C4 as amended: when no (offered, respondent) pair satisfies any of the  *)
(* four tiers, _find_overlap returns the empty sequence and the reply      *)
(* books nothing: no event is created, no confirmation is sent, and a      *)
(* request that was awaiting the candidate is left awaiting the candidate  *)
(* or in needs_human, never confirmed.                                     *)
(***************************************************************************)
C4_NoTierNeverMatches ==
    [][\A id \in DOMAIN active_requests :
          LET r == active_requests[id]
              stated == lastOp'.extracted.slots
          IN  (/\ Replied(id)
               /\ CarriesSlots(lastOp'.extracted)
               /\ \A p \in Pairs(r.recruiter_slots, stated) :
                      ~AnyTier(r.recruiter_slots[p[1]], stated[p[2]], r.duration_minutes))
                  => /\ find_overlap(r.recruiter_slots, stated, r.duration_minutes) = << >>
                     /\ "create_event" \notin CalledFns(calls')
                     /\ SentKinds(outbox') \cap ConfirmationKinds = {}
                     /\ active_requests'[id].confirmed_slot = r.confirmed_slot
                     /\ r.status = "awaiting_candidate"
                            => active_requests'[id].status
                                   \in {"awaiting_candidate", "needs_human"}]_vars

\* a reply whose slots match no offered slot on any tier has been answered with
\* a retry offer
C4_Witness ==
    \E id \in DOMAIN active_requests :
        /\ lastOp.op = "handle_email_reply" /\ lastOp.request_id = id
        /\ lastOp.extracted.action = "provide_availability"
        /\ lastOp.extracted.slots # << >>
        /\ Len(calls) = 1 /\ calls[1].fn = "get_available_slots"
        /\ calls[1].args.exclude_slots # << >>
        /\ \E p \in Pairs(calls[1].args.exclude_slots, lastOp.extracted.slots) :
               Intersects(calls[1].args.exclude_slots[p[1]], lastOp.extracted.slots[p[2]],
                          active_requests[id].duration_minutes)
        /\ \A p \in Pairs(calls[1].args.exclude_slots, lastOp.extracted.slots) :
               ~AnyTier(calls[1].args.exclude_slots[p[1]], lastOp.extracted.slots[p[2]],
                        active_requests[id].duration_minutes)
        /\ active_requests[id].status = "awaiting_candidate"
        /\ SentKinds(outbox) = {"availability_request"}

(***************************************************************************)
(* C5                                                                      *)
(***************************************************************************)
\* the respondent elements that match some offered slot at tier 1
Tier1Elements(offered, stated, d) ==
    {j \in 1..Len(stated) : \E i \in 1..Len(offered) : Tier1(offered[i], stated[j], d)}

\* the start instants of the offered slots some respondent element matches at tier 1
Tier1Starts(offered, stated, d) ==
    {OStart(offered[i]) : i \in {k \in 1..Len(offered) :
                                    \E j \in 1..Len(stated) : Tier1(offered[k], stated[j], d)}}

\* the matcher returned one slot, starting at the one instant of starts
ReturnsOnly(overlap, starts) ==
    /\ Len(overlap) = 1
    /\ starts = {parse_dt(overlap[1].start).t}

BooksOnly(request, starts) ==
    /\ Len(request.confirmed_slot) = 1
    /\ starts = {parse_dt(request.confirmed_slot[1].start).t}

(***************************************************************************)
(* C5 as claimed: when exactly one respondent element matches an offered   *)
(* slot at tier 1, _find_overlap returns that offered slot and no other,   *)
(* and the reply makes it confirmed_slot.                                  *)
(***************************************************************************)
C5_SingleTier1ElementIsReturnedAlone ==
    [][\A id \in DOMAIN active_requests :
          LET r == active_requests[id]
              stated == lastOp'.extracted.slots
              d == r.duration_minutes
          IN  (/\ Replied(id)
               /\ CarriesSlots(lastOp'.extracted)
               /\ Cardinality(Tier1Elements(r.recruiter_slots, stated, d)) = 1
               /\ Cardinality(Tier1Starts(r.recruiter_slots, stated, d)) = 1)
                  => /\ ReturnsOnly(find_overlap(r.recruiter_slots, stated, d),
                                    Tier1Starts(r.recruiter_slots, stated, d))
                     /\ BooksOnly(active_requests'[id],
                                  Tier1Starts(r.recruiter_slots, stated, d))]_vars

(***************************************************************************)
(* C5 as amended: when exactly one respondent element matches an offered   *)
(* slot at tier 1 and no (offered, respondent) pair matches on tier 2, 3   *)
(* or 4 without matching on tier 1, _find_overlap returns that offered     *)
(* slot and no other, and the reply makes it confirmed_slot.               *)
(***************************************************************************)
C5_SingleMatchIsReturnedAlone ==
    [][\A id \in DOMAIN active_requests :
          LET r == active_requests[id]
              stated == lastOp'.extracted.slots
              d == r.duration_minutes
          IN  (/\ Replied(id)
               /\ CarriesSlots(lastOp'.extracted)
               /\ Cardinality(Tier1Elements(r.recruiter_slots, stated, d)) = 1
               /\ Cardinality(Tier1Starts(r.recruiter_slots, stated, d)) = 1
               /\ \A p \in Pairs(r.recruiter_slots, stated) :
                      AnyTier(r.recruiter_slots[p[1]], stated[p[2]], d)
                          => Tier1(r.recruiter_slots[p[1]], stated[p[2]], d))
                  => /\ ReturnsOnly(find_overlap(r.recruiter_slots, stated, d),
                                    Tier1Starts(r.recruiter_slots, stated, d))
                     /\ BooksOnly(active_requests'[id],
                                  Tier1Starts(r.recruiter_slots, stated, d))]_vars

\* a reply with one tier-1 element among two, on a list that offers the matched
\* start twice, has been booked
C5_Witness ==
    \E id \in DOMAIN active_requests :
        LET r == active_requests[id]
            stated == lastOp.extracted.slots
            d == r.duration_minutes
        IN  /\ lastOp.op = "handle_email_reply" /\ lastOp.request_id = id
            /\ lastOp.extracted.action = "provide_availability"
            /\ Len(stated) = 2
            /\ Cardinality(Tier1Elements(r.recruiter_slots, stated, d)) = 1
            /\ Cardinality(Tier1Starts(r.recruiter_slots, stated, d)) = 1
            /\ Cardinality({i \in 1..Len(r.recruiter_slots) :
                               OStart(r.recruiter_slots[i])
                                   \in Tier1Starts(r.recruiter_slots, stated, d)}) = 2
            /\ \A p \in Pairs(r.recruiter_slots, stated) :
                   AnyTier(r.recruiter_slots[p[1]], stated[p[2]], d)
                       => Tier1(r.recruiter_slots[p[1]], stated[p[2]], d)
            /\ r.status = "confirmed"
            /\ BooksOnly(r, Tier1Starts(r.recruiter_slots, stated, d))
            /\ CalledFns(calls) = {"create_event"}

(***************************************************************************)
(* C6: once a request's status is needs_human, no handle_email_reply call  *)
(* changes its status, extends its offered slots, sends a retry offer or   *)
(* books a slot.                                                           *)
(***************************************************************************)
C6_NeedsHumanIsTerminal ==
    [][\A id \in DOMAIN active_requests :
          (Replied(id) /\ active_requests[id].status = "needs_human")
              => /\ active_requests'[id].status = "needs_human"
                 /\ active_requests'[id].recruiter_slots = active_requests[id].recruiter_slots
                 /\ active_requests'[id].confirmed_slot = active_requests[id].confirmed_slot
                 /\ "availability_request" \notin SentKinds(outbox')
                 /\ "create_event" \notin CalledFns(calls')]_vars

(***************************************************************************)
(* C7: when a reply to a request that awaits the candidate ends in the     *)
(* widened calendar fetch: a non-empty batch is appended to the offered    *)
(* slots, one retry offer goes to the candidate and the status stays;      *)
(* an empty batch sets needs_human, sends one escalation notice to the     *)
(* recruiter and leaves the offered slots as they were.                    *)
(***************************************************************************)
C7_NoOverlapHandling ==
    [][\A id \in DOMAIN active_requests :
          LET before == active_requests[id]
              after == active_requests'[id]
              batch == calls'[1].returned
          IN  (/\ Replied(id)
               /\ before.status = "awaiting_candidate"
               /\ "get_available_slots" \in CalledFns(calls'))
                  => /\ Len(calls') = 1
                     /\ calls'[1].args.days_ahead = RETRY_DAYS_AHEAD
                     /\ IF batch # << >>
                        THEN /\ after.recruiter_slots = before.recruiter_slots \o batch
                             /\ after.status = "awaiting_candidate"
                             /\ Len(outbox') = 1
                             /\ outbox'[1].kind = "availability_request"
                             /\ outbox'[1].retry
                             /\ outbox'[1].to = before.candidate_email
                        ELSE /\ after.recruiter_slots = before.recruiter_slots
                             /\ after.status = "needs_human"
                             /\ Len(outbox') = 1
                             /\ outbox'[1].kind = "escalation"
                             /\ outbox'[1].to = before.recruiter_email]_vars

\* a retry has extended a non-empty list of offered slots by a non-empty batch
C7_Witness ==
    \E id \in DOMAIN active_requests :
        /\ lastOp.op = "handle_email_reply" /\ lastOp.request_id = id
        /\ Len(calls) = 1 /\ calls[1].fn = "get_available_slots"
        /\ calls[1].args.exclude_slots # << >>
        /\ calls[1].returned # << >>
        /\ active_requests[id].status = "awaiting_candidate"
        /\ active_requests[id].recruiter_slots
               = calls[1].args.exclude_slots \o calls[1].returned

(***************************************************************************)
(* C8: when the calendar returns no interval, initiate_scheduling fails    *)
(* with UnavailableError: no offer is sent and no request comes to await   *)
(* the candidate.                                                          *)
(***************************************************************************)
C8_InitiateFailsWithoutIntervals ==
    (/\ lastOp.op = "initiate_scheduling"
     /\ calls[1].returned = << >>)
        => /\ "raised" \in DOMAIN result
           /\ outbox = << >>
           /\ \/ lastOp.request_id \notin DOMAIN active_requests
              \/ active_requests[lastOp.request_id].status # "awaiting_candidate"

(***************************************************************************)
(* C9: after initiate_scheduling with a non-empty calendar batch, the      *)
(* request is in the mapping under its id, its offered slots are the batch,*)
(* one offer has been sent, to the candidate, and it awaits the candidate. *)
(***************************************************************************)
C9_InitiateStoresOffersAndWaits ==
    (/\ lastOp.op = "initiate_scheduling"
     /\ calls[1].returned # << >>)
        => /\ lastOp.request_id \in DOMAIN active_requests
           /\ result.request_id = lastOp.request_id
           /\ result.request = active_requests[lastOp.request_id]
           /\ active_requests[lastOp.request_id].recruiter_slots = calls[1].returned
           /\ active_requests[lastOp.request_id].status = "awaiting_candidate"
           /\ Len(outbox) = 1
           /\ outbox[1].kind = "availability_request"
           /\ ~outbox[1].retry
           /\ outbox[1].to = active_requests[lastOp.request_id].candidate_email

\* initiate_scheduling has just returned with a non-empty batch
C9_Witness ==
    /\ lastOp.op = "initiate_scheduling"
    /\ Len(calls) = 1
    /\ calls[1].args.days_ahead = INITIAL_DAYS_AHEAD
    /\ calls[1].returned # << >>
    /\ lastOp.request_id \in DOMAIN active_requests

(***************************************************************************)
(* C10: a reply with an id that is not in the mapping returns an error and *)
(* changes nothing: the mapping is as before, the language model is not    *)
(* called, no e-mail is sent and no calendar call is made.                 *)
(***************************************************************************)
C10_UnknownIdChangesNothing ==
    [][(/\ lastOp'.op = "handle_email_reply"
        /\ lastOp'.request_id \notin DOMAIN active_requests)
           => /\ result'.status = "error"
              /\ result'.message = "Unknown request ID"
              /\ active_requests' = active_requests
              /\ llm' = 0
              /\ outbox' = << >>
              /\ calls' = << >>]_vars

\* a reply with an unknown id has been turned away while a request is live
C10_Witness ==
    /\ lastOp.op = "handle_email_reply"
    /\ lastOp.request_id \notin DOMAIN active_requests
    /\ active_requests # << >>
    /\ result.status = "error"

(***************************************************************************)
(* C11: a decline on a request that awaits the candidate sets status to    *)
(* cancelled, sends one cancellation notice, to the recruiter and none to  *)
(* the candidate, makes no calendar call and leaves the offered slots and  *)
(* confirmed_slot as they were.                                            *)
(***************************************************************************)
C11_DeclineCancels ==
    [][\A id \in DOMAIN active_requests :
          LET before == active_requests[id]
              after == active_requests'[id]
          IN  (/\ Replied(id)
               /\ lastOp'.extracted.action = "decline"
               /\ before.status = "awaiting_candidate")
                  => /\ after.status = "cancelled"
                     /\ result'.status = "cancelled"
                     /\ Len(outbox') = 1
                     /\ outbox'[1].kind = "cancellation"
                     /\ outbox'[1].to = before.recruiter_email
                     /\ outbox'[1].to # before.candidate_email
                     /\ calls' = << >>
                     /\ after.recruiter_slots = before.recruiter_slots
                     /\ after.confirmed_slot = before.confirmed_slot]_vars

\* the first reply to a request with offered slots was a decline
C11_Witness ==
    \E id \in DOMAIN active_requests :
        /\ lastOp.op = "handle_email_reply" /\ lastOp.request_id = id
        /\ lastOp.extracted.action = "decline"
        /\ Len(active_requests[id].conversation_history) = 1
        /\ active_requests[id].recruiter_slots # << >>
        /\ active_requests[id].status = "cancelled"
        /\ SentKinds(outbox) = {"cancellation"}

(***************************************************************************)
(* C12: a confirm on a request whose confirmed_slot is null returns an     *)
(* error outcome and leaves status, offered slots and confirmed_slot as    *)
(* they were, with no calendar call and no e-mail.                         *)
(***************************************************************************)
C12_ConfirmWithoutSlotIsAnError ==
    [][\A id \in DOMAIN active_requests :
          LET before == active_requests[id]
              after == active_requests'[id]
          IN  (/\ Replied(id)
               /\ lastOp'.extracted.action = "confirm"
               /\ before.confirmed_slot = << >>)
                  => /\ result'.status = "error"
                     /\ result'.message = "No slot to confirm"
                     /\ after.status = before.status
                     /\ after.recruiter_slots = before.recruiter_slots
                     /\ after.confirmed_slot = << >>
                     /\ calls' = << >>
                     /\ outbox' = << >>]_vars

\* a confirm has been turned away on a request that awaits the candidate
C12_Witness ==
    \E id \in DOMAIN active_requests :
        /\ lastOp.op = "handle_email_reply" /\ lastOp.request_id = id
        /\ lastOp.extracted.action = "confirm"
        /\ active_requests[id].confirmed_slot = << >>
        /\ active_requests[id].status = "awaiting_candidate"
        /\ result.status = "error"
        /\ outbox = << >> /\ calls = << >>

(***************************************************************************)
(* C13                                                                     *)
(***************************************************************************)
\* the request as handle_email_reply hands it to the dispatch in this step
WithReply(id) ==
    [active_requests[id] EXCEPT
        !.conversation_history =
            Append(@, [from |-> lastOp'.sender, body |-> lastOp'.email_body])]

\* what the calendar answered in this step, where it was asked
FetchedInStep ==
    IF "get_available_slots" \in CalledFns(calls') THEN calls'[1].returned ELSE << >>
EventInStep ==
    IF "create_event" \in CalledFns(calls') THEN calls'[1].returned ELSE AnEvent

\* the step did to the request what the given helper result says
StepIs(id, effect) ==
    /\ active_requests'[id] = effect.request
    /\ outbox' = effect.sent
    /\ calls' = effect.calendar_calls
    /\ result' = effect.returned
    /\ matcher' = effect.find_overlap_calls

ProcessedAsAvailability(id) ==
    StepIs(id, process_candidate_availability(id, WithReply(id), lastOp'.extracted.slots,
                                              FetchedInStep, EventInStep))

HandledAsNoOverlap(id) ==
    StepIs(id, handle_no_overlap(id, WithReply(id), FetchedInStep))

SilentlyAwaits(id) ==
    /\ result' = [status |-> "awaiting_response"]
    /\ active_requests'[id].status = active_requests[id].status
    /\ active_requests'[id].recruiter_slots = active_requests[id].recruiter_slots
    /\ active_requests'[id].confirmed_slot = active_requests[id].confirmed_slot
    /\ calls' = << >>
    /\ outbox' = << >>

(***************************************************************************)
(* C13 as claimed: a reply whose extracted action is none of               *)
(* provide_availability, confirm and decline is processed as               *)
(* provide_availability when it carries slots, and otherwise returns       *)
(* awaiting_response with no change of status, offered slots or            *)
(* confirmed_slot, no calendar call and no e-mail.                         *)
(***************************************************************************)
C13_OtherIntentsFallBackOnSlots ==
    [][\A id \in DOMAIN active_requests :
          (/\ Replied(id)
           /\ lastOp'.extracted.action \notin {"provide_availability", "confirm", "decline"})
              => IF lastOp'.extracted.slots # << >>
                 THEN ProcessedAsAvailability(id)
                 ELSE SilentlyAwaits(id)]_vars

(***************************************************************************)
(* C13 as amended: a reply whose extracted action is request_other_times   *)
(* is handled as no overlap, whatever slots it carries; a reply whose      *)
(* action is none of provide_availability, confirm, decline and            *)
(* request_other_times is processed as provide_availability when it        *)
(* carries slots, and otherwise returns awaiting_response with no change   *)
(* of status, offered slots or confirmed_slot, no calendar call and no     *)
(* e-mail.                                                                 *)
(***************************************************************************)
C13_UnclearFallsBackOnSlots ==
    [][\A id \in DOMAIN active_requests :
          /\ (Replied(id) /\ lastOp'.extracted.action = "request_other_times")
                 => HandledAsNoOverlap(id)
          /\ (/\ Replied(id)
              /\ lastOp'.extracted.action
                     \notin {"provide_availability", "confirm", "decline",
                             "request_other_times"})
                 => IF lastOp'.extracted.slots # << >>
                    THEN ProcessedAsAvailability(id)
                    ELSE SilentlyAwaits(id)]_vars

\* an unclear reply that carries a matching slot has been booked
C13_Witness ==
    \E id \in DOMAIN active_requests :
        /\ lastOp.op = "handle_email_reply" /\ lastOp.request_id = id
        /\ lastOp.extracted.action = "unclear"
        /\ lastOp.extracted.slots # << >>
        /\ active_requests[id].candidate_slots = lastOp.extracted.slots
        /\ active_requests[id].status = "confirmed"
        /\ CalledFns(calls) = {"create_event"}

(***************************************************************************)
(* C14: provide_availability with an empty slot list is handled as no      *)
(* overlap: candidate_slots becomes the empty list, _find_overlap is not   *)
(* called, the step is that of _handle_no_overlap (a retry offer or an     *)
(* escalation), and nothing is booked.                                     *)
(***************************************************************************)
C14_EmptyAvailabilityIsNoOverlap ==
    [][\A id \in DOMAIN active_requests :
          LET before == active_requests[id]
              after == active_requests'[id]
          IN  (/\ Replied(id)
               /\ lastOp'.extracted.action = "provide_availability"
               /\ lastOp'.extracted.slots = << >>)
                  => /\ after.candidate_slots = << >>
                     /\ matcher' = 0
                     /\ StepIs(id, handle_no_overlap(
                                       id, [WithReply(id) EXCEPT !.candidate_slots = << >>],
                                       FetchedInStep))
                     /\ result'.status \in {"awaiting_candidate", "escalated"}
                     /\ SentKinds(outbox') \in {{"availability_request"}, {"escalation"}}
                     /\ CalledFns(calls') = {"get_available_slots"}
                     /\ after.confirmed_slot = before.confirmed_slot
                     /\ after.status \in {before.status, "needs_human"}]_vars

\* an empty provide_availability, the second reply to the request, has been
\* answered with a retry offer
C14_Witness ==
    \E id \in DOMAIN active_requests :
        /\ lastOp.op = "handle_email_reply" /\ lastOp.request_id = id
        /\ lastOp.extracted = [action |-> "provide_availability", slots |-> << >>]
        /\ Len(active_requests[id].conversation_history) = 2
        /\ active_requests[id].candidate_slots = << >>
        /\ matcher = 0
        /\ result.status = "awaiting_candidate"
        /\ SentKinds(outbox) = {"availability_request"}

(***************************************************************************)
(* C15: every initiate_scheduling call makes an id that is not yet a key   *)
(* of active_requests, so it replaces no request that is already there.    *)
(***************************************************************************)
C15_RequestIdsAreUnique ==
    [][lastOp'.op = "initiate_scheduling"
           => /\ lastOp'.request_id \notin DOMAIN active_requests
              /\ \A k \in DOMAIN active_requests :
                     /\ k \in DOMAIN active_requests'
                     /\ active_requests'[k] = active_requests[k]]_vars

(***************************************************************************)
(* C16, C17: the lifetime of a request                                     *)
(***************************************************************************)
IsPrefix(s, t) == Len(s) <= Len(t) /\ SubSeq(t, 1, Len(s)) = s

\* the step is the initiate_scheduling call that creates the request stored
\* under id; every other step that finds a request under id operates on it or
\* leaves it alone
Creates(id) == lastOp'.op = "initiate_scheduling" /\ lastOp'.request_id = id

(***************************************************************************)
(* C16: after initiate_scheduling has stored the first batch, every        *)
(* operation leaves the request's earlier list of offered slots a prefix   *)
(* of its new one.                                                         *)
(***************************************************************************)
C16_OfferedSlotsAreAppendOnly ==
    [][\A id \in DOMAIN active_requests :
          ~Creates(id)
              => /\ id \in DOMAIN active_requests'
                 /\ IsPrefix(active_requests[id].recruiter_slots,
                             active_requests'[id].recruiter_slots)]_vars

\* a retry has put a batch that starts with a new slot behind the slots
\* offered before
C16_Witness ==
    \E id \in DOMAIN active_requests :
        /\ lastOp.op = "handle_email_reply" /\ lastOp.request_id = id
        /\ Len(calls) = 1 /\ calls[1].fn = "get_available_slots"
        /\ calls[1].args.exclude_slots # << >>
        /\ calls[1].returned # << >>
        /\ calls[1].returned[1] # calls[1].args.exclude_slots[1]
        /\ IsPrefix(calls[1].args.exclude_slots, active_requests[id].recruiter_slots)
        /\ Len(active_requests[id].recruiter_slots)
               = Len(calls[1].args.exclude_slots) + Len(calls[1].returned)

(***************************************************************************)
(* C17: every handle_email_reply call on a known id appends one entry, the *)
(* sender and the text of the reply, at the end of the request's history,  *)
(* whatever the extracted action and the request's status; no other        *)
(* operation on the request changes its history.                           *)
(***************************************************************************)
C17_HistoryIsAppendOnly ==
    [][\A id \in DOMAIN active_requests :
          ~Creates(id)
              => /\ id \in DOMAIN active_requests'
                 /\ active_requests'[id].conversation_history =
                        IF lastOp'.op = "handle_email_reply" /\ lastOp'.request_id = id
                        THEN Append(active_requests[id].conversation_history,
                                    [from |-> lastOp'.sender, body |-> lastOp'.email_body])
                        ELSE active_requests[id].conversation_history]_vars

\* a cancelled request has taken a further reply, from another sender and with
\* another text than the reply before it
C17_Witness ==
    \E id \in DOMAIN active_requests :
        LET h == active_requests[id].conversation_history
        IN  /\ lastOp.op = "handle_email_reply" /\ lastOp.request_id = id
            /\ Len(h) = 3
            /\ h[3] = [from |-> lastOp.sender, body |-> lastOp.email_body]
            /\ h[2].from # h[3].from
            /\ h[2].body # h[3].body
            /\ lastOp.extracted.action = "unclear"
            /\ active_requests[id].status = "cancelled"

(***************************************************************************)
(* C18: once a request's confirmed_slot is set, no later                   *)
(* handle_email_reply call gives it another value.                         *)
(***************************************************************************)
C18_ConfirmedSlotIsSetOnce ==
    [][\A id \in DOMAIN active_requests :
          (Replied(id) /\ active_requests[id].confirmed_slot # << >>)
              => active_requests'[id].confirmed_slot
                     = active_requests[id].confirmed_slot]_vars

(***************************************************************************)
(* C19, C20: booking                                                       *)
(***************************************************************************)
\* the positions of the offered slots that some respondent slot matches on
\* some tier
MatchedPositions(offered, stated, d) ==
    {i \in 1..Len(offered) : \E j \in 1..Len(stated) : AnyTier(offered[i], stated[j], d)}

FirstMatched(offered, stated, d) ==
    offered[CHOOSE i \in MatchedPositions(offered, stated, d) :
                \A k \in MatchedPositions(offered, stated, d) : i <= k]

\* the reply's slots go to the matcher
ReachesMatcher(extracted) ==
    /\ extracted.slots # << >>
    /\ extracted.action \notin {"confirm", "decline", "request_other_times"}

\* both confirmation e-mails, one to each party, and nothing else
BothConfirmationsSent(sent, request) ==
    /\ Len(sent) = 2
    /\ \E k \in 1..2 : /\ sent[k].kind = "confirmation_candidate"
                       /\ sent[k].to = request.candidate_email
    /\ \E k \in 1..2 : /\ sent[k].kind = "confirmation_recruiter"
                       /\ sent[k].to = request.recruiter_email

\* one event was asked for, for the given slot, with both parties attending
OneEventRequested(made, slot, request) ==
    /\ Len(made) = 1
    /\ made[1].fn = "create_event"
    /\ made[1].args.start = slot.start
    /\ made[1].args.end = slot.end
    /\ {made[1].args.attendees[k] : k \in 1..Len(made[1].args.attendees)}
           = {request.recruiter_email, request.candidate_email}

(***************************************************************************)
(* C19: when the slots of a reply match, the earliest offered slot that    *)
(* any of them matches becomes confirmed_slot, one calendar event is       *)
(* requested for it with both parties as attendees, two confirmations are  *)
(* sent, one to the candidate and one to the recruiter, and status becomes *)
(* confirmed.                                                              *)
(***************************************************************************)
C19_FirstMatchIsBooked ==
    [][\A id \in DOMAIN active_requests :
          LET before == active_requests[id]
              after == active_requests'[id]
              stated == lastOp'.extracted.slots
              d == before.duration_minutes
              first == FirstMatched(before.recruiter_slots, stated, d)
          IN  (/\ Replied(id)
               /\ ReachesMatcher(lastOp'.extracted)
               /\ MatchedPositions(before.recruiter_slots, stated, d) # {})
                  => /\ Len(after.confirmed_slot) = 1
                     /\ after.confirmed_slot[1]
                            = find_overlap(before.recruiter_slots, stated, d)[1]
                     /\ parse_dt(after.confirmed_slot[1].start).t = OStart(first)
                     /\ parse_dt(after.confirmed_slot[1].end).t = OEnd(first)
                     /\ OneEventRequested(calls', after.confirmed_slot[1], before)
                     /\ BothConfirmationsSent(outbox', before)
                     /\ after.status = "confirmed"
                     /\ result'.status = "confirmed"]_vars

\* a reply that matches several offered slots has been booked on the first
C19_Witness ==
    \E id \in DOMAIN active_requests :
        LET r == active_requests[id]
            matches == MatchedPositions(r.recruiter_slots, lastOp.extracted.slots,
                                        r.duration_minutes)
        IN  /\ lastOp.op = "handle_email_reply" /\ lastOp.request_id = id
            /\ lastOp.extracted.action = "provide_availability"
            /\ \E i, k \in matches : OStart(r.recruiter_slots[i]) # OStart(r.recruiter_slots[k])
            /\ 1 \notin matches
            /\ r.status = "confirmed"
            /\ Len(r.confirmed_slot) = 1
            /\ parse_dt(r.confirmed_slot[1].start).t
                   = OStart(FirstMatched(r.recruiter_slots, lastOp.extracted.slots,
                                         r.duration_minutes))
            /\ Len(calls) = 1 /\ calls[1].fn = "create_event"
            /\ Len(outbox) = 2

(***************************************************************************)
(* C20: when create_event returns an error instead of an event, status     *)
(* still becomes confirmed, confirmed_slot is the matched slot, and both   *)
(* confirmation e-mails are still sent.                                    *)
(***************************************************************************)
C20_EventFailureDoesNotBlockConfirmation ==
    [][\A id \in DOMAIN active_requests :
          LET before == active_requests[id]
              after == active_requests'[id]
          IN  (/\ Replied(id)
               /\ "create_event" \in CalledFns(calls')
               /\ calls'[1].returned.error)
                  => /\ after.status = "confirmed"
                     /\ result'.status = "confirmed"
                     /\ Len(after.confirmed_slot) = 1
                     /\ OneEventRequested(calls', after.confirmed_slot[1], before)
                     /\ ReachesMatcher(lastOp'.extracted)
                            => after.confirmed_slot[1]
                                   = find_overlap(before.recruiter_slots,
                                                  lastOp'.extracted.slots,
                                                  before.duration_minutes)[1]
                     /\ BothConfirmationsSent(outbox', before)]_vars

\* the first reply matched, the event could not be created, and the request is
\* confirmed all the same
C20_Witness ==
    \E id \in DOMAIN active_requests :
        /\ lastOp.op = "handle_email_reply" /\ lastOp.request_id = id
        /\ lastOp.extracted.action = "provide_availability"
        /\ Len(active_requests[id].conversation_history) = 1
        /\ Len(calls) = 1 /\ calls[1].fn = "create_event"
        /\ calls[1].returned.error
        /\ active_requests[id].status = "confirmed"
        /\ active_requests[id].confirmed_slot # << >>
        /\ SentKinds(outbox) = ConfirmationKinds

(***************************************************************************)
(* C21: an exception of a collaborator leaves the mapping as it was        *)
(***************************************************************************)
\* C21: when the calendar, the transport or the extraction raises during
\* initiate_scheduling or handle_email_reply, active_requests and every field
\* of every request are exactly what they were before the call.
C21_ExceptionLeavesRequestsUntouched ==
    [][("raised" \in DOMAIN result') => active_requests' = active_requests]_vars

(***************************************************************************)
(* C22: initiate and handle_reply on the same request, concurrently        *)
(***************************************************************************)
Terminal == {"confirmed", "cancelled", "needs_human"}

\* the step is the status write that ends the initiate_scheduling call
WritesAwaiting(id) ==
    /\ initiating # << >>
    /\ initiating[1].request_id = id
    /\ initiating[1].at = "sent"
    /\ initiating' = << >>

\* the initiate_scheduling call that created the request has not stored its
\* offered slots yet
SlotsNotStored(id) ==
    /\ initiating # << >>
    /\ initiating[1].request_id = id
    /\ initiating[1].at = "stored"

\* C22: with initiate_scheduling and the poller's handle_email_reply running
\* concurrently on one request, a status confirmed, cancelled or needs_human
\* written by handle_email_reply is never overwritten by the later write of
\* awaiting_candidate of initiate_scheduling, and handle_email_reply never
\* runs the matcher against offered slots that initiate_scheduling has not
\* stored yet.
C22_InitiateAndReplyAreSerialised ==
    [][\A id \in DOMAIN active_requests :
          /\ WritesAwaiting(id) => active_requests[id].status \notin Terminal
          /\ (Replied(id) /\ matcher' > 0) => ~SlotsNotStored(id)]_vars

(***************************************************************************)
(* C23, C24, C25: the matcher                                              *)
(***************************************************************************)
\* what _find_overlap returns for the reply handled in this step
Returned(id) ==
    find_overlap(active_requests[id].recruiter_slots, lastOp'.extracted.slots,
                 active_requests[id].duration_minutes)

\* the step hands the slots of a reply to the matcher, once
Matches(id) ==
    /\ Replied(id)
    /\ ReachesMatcher(lastOp'.extracted)
    /\ matcher' = 1

StartOf(entry) == parse_dt(entry.start).t
EndOf(entry) == parse_dt(entry.end).t

\* where the start instant occurs first among the offered slots
FirstOccurrence(offered, t) ==
    CHOOSE i \in 1..Len(offered) :
        /\ OStart(offered[i]) = t
        /\ \A k \in 1..(i - 1) : OStart(offered[k]) # t

\* C23: every entry the matcher returns starts (and ends) where some offered
\* slot does, no two entries start at the same instant, and the entries come
\* in the order in which their starts first occur among the offered slots.
C23_OutputIsDeduplicatedAndOrdered ==
    [][\A id \in DOMAIN active_requests :
          LET offered == active_requests[id].recruiter_slots
              out == Returned(id)
          IN  Matches(id) =>
                 /\ \A k \in 1..Len(out) :
                        \E i \in 1..Len(offered) :
                            /\ OStart(offered[i]) = StartOf(out[k])
                            /\ OEnd(offered[i]) = EndOf(out[k])
                 /\ \A k, l \in 1..Len(out) :
                        k # l => StartOf(out[k]) # StartOf(out[l])
                 /\ \A k, l \in 1..Len(out) :
                        k < l => FirstOccurrence(offered, StartOf(out[k]))
                                     < FirstOccurrence(offered, StartOf(out[l]))
                 /\ out # << >> => active_requests'[id].confirmed_slot = <<out[1]>>]_vars

\* a reply naming Tuesday before Monday has been matched against a list that
\* offers each slot twice, and the Monday slot, offered first, has been booked
C23_Witness ==
    \E id \in DOMAIN active_requests :
        LET r == active_requests[id]
            out == find_overlap(r.recruiter_slots, lastOp.extracted.slots,
                                r.duration_minutes)
            raw == overlapping(r.recruiter_slots, lastOp.extracted.slots,
                               r.duration_minutes, 1)
        IN  /\ lastOp.op = "handle_email_reply" /\ lastOp.request_id = id
            /\ lastOp.extracted.slots = <<Tuesday14, Monday10>>
            /\ matcher = 1
            /\ Len(out) >= 2
            /\ Len(raw) > Len(out)
            /\ \E i, k \in 1..Len(r.recruiter_slots) :
                   i # k /\ OStart(r.recruiter_slots[i]) = OStart(r.recruiter_slots[k])
            /\ r.status = "confirmed"
            /\ r.confirmed_slot = <<out[1]>>
            /\ DateOf(StartOf(out[1])) = 3

\* C24: an offered slot is in the matcher's result exactly when it and some
\* respondent slot both parse and satisfy a tier: same date and hour, same
\* weekday and hour, same date with the respondent's hour 0, or an
\* intersection of at least the duration.
C24_IncludedIffSomeTier ==
    [][\A id \in DOMAIN active_requests :
          LET offered == active_requests[id].recruiter_slots
              stated == lastOp'.extracted.slots
              d == active_requests[id].duration_minutes
              out == Returned(id)
          IN  Matches(id) =>
                 /\ \A i \in 1..Len(offered) :
                        (\E k \in 1..Len(out) : StartOf(out[k]) = OStart(offered[i]))
                            <=> (\E j \in 1..Len(stated) :
                                     AnyTier(offered[i], stated[j], d))
                 /\ (out # << >>) <=> (active_requests'[id].status = "confirmed"
                                          /\ "create_event" \in CalledFns(calls'))]_vars

\* a reply naming a Monday two weeks later has been matched, by weekday and
\* hour alone, with the first Monday slot of a list of which other slots
\* satisfy no tier
C24_Witness ==
    \E id \in DOMAIN active_requests :
        LET r == active_requests[id]
            stated == lastOp.extracted.slots
            d == r.duration_minutes
        IN  /\ lastOp.op = "handle_email_reply" /\ lastOp.request_id = id
            /\ matcher = 1
            /\ Len(stated) = 1
            /\ r.status = "confirmed"
            /\ \E i \in 1..Len(r.recruiter_slots) :
                   /\ Tier2(r.recruiter_slots[i], stated[1], d)
                   /\ ~Tier1(r.recruiter_slots[i], stated[1], d)
                   /\ ~Tier3(r.recruiter_slots[i], stated[1], d)
                   /\ ~Tier4(r.recruiter_slots[i], stated[1], d)
                   /\ StartOf(r.confirmed_slot[1]) = OStart(r.recruiter_slots[i])
            /\ \E i \in 1..Len(r.recruiter_slots) :
                   ~AnyTier(r.recruiter_slots[i], stated[1], d)

\* the length of what the two time ranges have in common
Intersection(rs, cs, d) ==
    Min(OEnd(rs), REnd(cs, d))
        - (IF OStart(rs) > RStart(cs) THEN OStart(rs) ELSE RStart(cs))

NoEarlierTier(rs, cs, d) ==
    Parseable(rs, cs, d) /\ ~Tier1(rs, cs, d) /\ ~Tier2(rs, cs, d) /\ ~Tier3(rs, cs, d)

\* C25: for a pair on which tiers 1-3 do not fire, an intersection of exactly
\* the duration matches and an intersection shorter by any amount does not;
\* a reply whose only slot leaves every offered slot short is not booked.
C25_ExactDurationMatches ==
    [][\A id \in DOMAIN active_requests :
          LET offered == active_requests[id].recruiter_slots
              stated == lastOp'.extracted.slots
              d == active_requests[id].duration_minutes
              out == Returned(id)
          IN  Matches(id) =>
                 /\ \A p \in Pairs(offered, stated) :
                        LET rs == offered[p[1]]
                            cs == stated[p[2]]
                        IN  NoEarlierTier(rs, cs, d) =>
                               /\ Intersection(rs, cs, d) = d
                                      => /\ pair_matched(rs, cs, d)
                                         /\ \E k \in 1..Len(out) :
                                                StartOf(out[k]) = OStart(rs)
                                         /\ active_requests'[id].status = "confirmed"
                               /\ Intersection(rs, cs, d) < d
                                      => ~pair_matched(rs, cs, d)
                 /\ (\A p \in Pairs(offered, stated) :
                        /\ NoEarlierTier(offered[p[1]], stated[p[2]], d)
                        /\ Intersection(offered[p[1]], stated[p[2]], d) < d)
                        => /\ out = << >>
                           /\ "create_event" \notin CalledFns(calls')]_vars

\* a 30-minute slot has been booked on a reply whose range leaves exactly 30
\* minutes of it and fires none of the first three tiers on any offered slot
C25_Witness ==
    \E id \in DOMAIN active_requests :
        LET r == active_requests[id]
            stated == lastOp.extracted.slots
            d == r.duration_minutes
        IN  /\ lastOp.op = "handle_email_reply" /\ lastOp.request_id = id
            /\ matcher = 1
            /\ Len(stated) = 1
            /\ r.status = "confirmed"
            /\ \A i \in 1..Len(r.recruiter_slots) :
                   NoEarlierTier(r.recruiter_slots[i], stated[1], d)
            /\ \E i \in 1..Len(r.recruiter_slots) :
                   /\ Intersection(r.recruiter_slots[i], stated[1], d) = d
                   /\ StartOf(r.confirmed_slot[1]) = OStart(r.recruiter_slots[i])
            /\ \E i \in 1..Len(r.recruiter_slots) :
                   Intersection(r.recruiter_slots[i], stated[1], d) < d

\* a reply whose range leaves one minute less than the duration of the slot
\* it meets has been answered with new times, not booked
C25_ShortByOneMinute ==
    \E id \in DOMAIN active_requests :
        LET r == active_requests[id]
            stated == lastOp.extracted.slots
            d == r.duration_minutes
        IN  /\ lastOp.op = "handle_email_reply" /\ lastOp.request_id = id
            /\ matcher = 1
            /\ Len(stated) = 1
            /\ r.status # "confirmed"
            /\ Len(calls) = 1 /\ calls[1].fn = "get_available_slots"
            /\ \E i \in 1..Len(calls[1].args.exclude_slots) :
                   Intersection(calls[1].args.exclude_slots[i], stated[1], d) = d - 1

(***************************************************************************)
(* C26: the tagged line in outbound messages                               *)
(***************************************************************************)
\* C26: every message the engine sends for a request (offer, retry offer,
\* both confirmations, cancellation notice, escalation notice) contains the
\* line [Request ID: <id>] with the id of that request.
C26_EveryMessageCarriesTheRequestId ==
    \A k \in 1..Len(outbox) : lastOp.request_id \in outbox[k].tags

(***************************************************************************)
(* C27, C28: the request id found in a reply                               *)
(***************************************************************************)
\* C27: for every id initiate_scheduling can make, '.' and '+' in the local
\* part included, a reply that carries the tagged line of the offer, quoted
\* or not, is parsed to that id.
C27_TaggedIdRoundTrips ==
    \A k \in 1..Len(inbox) :
        \A id \in OfferedIds, w \in Wrappings :
            inbox[k].body = wrap(w, tagged_line(request_id_string(id)))
                => inbox[k].request_id = request_id_string(id)

\* C28: a tagged occurrence wins over a bare token and over a loosely written
\* one, wherever they stand; a bare token is returned only when nothing is
\* tagged, wins over a loosely written one, and the loose form is returned,
\* normalised to req_..., only when there is neither; a text with none of the
\* three yields no id.  The tokens are tokens of the pattern req_[\w\-]+.
C28_TaggedThenBareThenLoose ==
    \A k \in 1..Len(inbox) :
        LET body == inbox[k].body
            found == inbox[k].request_id
        IN  /\ \A t1, t2 \in Tokens :
                   body \in {bare_then_tagged(t2, t1), tagged_then_bare(t1, t2),
                             loose_then_tagged(t2, t1)}
                       => found = t1
            /\ \A t2, t3 \in Tokens :
                   body \in {bare_only(t2), loose_then_bare(t3, t2)} => found = t2
            /\ \A t3 \in Tokens, form \in {"capitals", "hyphen"} :
                   body = loose_only(t3, form) => found = t3
            /\ body \in Tokenless => found = None

\* a reply with a bare token in front of the tagged line of another request
\* has been parsed to the tagged one
C28_Witness ==
    \E k \in 1..Len(inbox) :
        \E t1, t2 \in Tokens :
            /\ t1 # t2
            /\ inbox[k].body = bare_then_tagged(t2, t1)
            /\ first_bare(inbox[k].body) = t2
            /\ inbox[k].request_id = t1

(***************************************************************************)
(* C29: what a poll tick hands to the agent                                *)
(***************************************************************************)
HasToken(reply) == reply.request_id # None

\* the agent is not called
AgentIdle ==
    UNCHANGED <<active_requests, lastOp, result, outbox, calls, llm, matcher>>

\* the step calls handle_email_reply with the id, sender and body of the reply
Hands(reply) ==
    /\ lastOp'.op = "handle_email_reply"
    /\ lastOp'.request_id = key_of(reply.request_id)
    /\ lastOp'.sender = reply.sender
    /\ lastOp'.email_body = reply.body
    /\ llm' = IF lastOp'.request_id \in DOMAIN active_requests THEN 1 ELSE 0

\* C29: in every tick the messages handed to handle_email_reply are the
\* fetched messages that carry an id, each once and in the order fetched;
\* a message without an id is passed over without a call; whatever the
\* message, known id or not, the tick goes on with the next one and is over
\* only when none is left.
C29_TickRoutesEveryTokenedMessage ==
    /\ [](poller.at # "route"
              => poller.routed = SelectSeq(poller.fetched, HasToken))
    /\ [][/\ (poller.at = "fetch" /\ poller'.at # "fetch")
                 => poller'.fetched = inbox /\ poller'.replies = inbox
          /\ (poller.at = "route" /\ poller'.replies # poller.replies)
                 => /\ poller'.replies = Tail(poller.replies)
                    /\ IF HasToken(Head(poller.replies))
                       THEN /\ Hands(Head(poller.replies))
                            /\ poller'.routed = Append(poller.routed, Head(poller.replies))
                       ELSE /\ AgentIdle
                            /\ poller'.routed = poller.routed]_vars

(***************************************************************************)
(* C30: stopping the polling service                                       *)
(***************************************************************************)
\* a tick begins: the test of the loop lets the thread into _check_inbox
BeginsTick == poller.at = "test" /\ poller'.at = "fetch"

\* the thread has left _poll_loop: the test of the loop failed, or an
\* exception went through it
Over == poller.at \in {"exited", "died"}

\* C30: once stop() has been called no tick begins; stop() does not cut short
\* the tick in progress; the thread, if it was started, leaves the loop: a
\* tick in progress runs to its end, a waiting thread wakes, and the next test
\* of the loop is the last.
C30_StopEndsThePolling ==
    /\ [][poller.stop => ~BeginsTick]_vars
    /\ [][(poller.stop /\ poller.at = "wait") => poller'.at \in {"wait", "test"}]_vars
    /\ [][(poller.stop /\ poller.at = "test") => poller'.at \in {"test", "exited"}]_vars
    /\ [][(poller.at = "route" /\ poller.replies # << >>) => poller'.at # "wait"]_vars
    /\ [][Over => poller'.at = poller.at]_vars
    /\ (poller.stop /\ poller.at \in {"fetch", "route"}) ~> (poller.at = "wait" \/ Over)
    /\ (poller.stop /\ poller.at # "idle") ~> Over

\* the thread has ended after stop() and after a tick in which it handed an
\* answer to the agent
C30_Witness ==
    /\ poller.stop
    /\ poller.at = "exited"
    /\ lastOp.op = "handle_email_reply"
    /\ result = [status |-> "cancelled"]
    /\ inbox # << >>

(***************************************************************************)
(* C31: an answer of the language model that is not what was asked for     *)
(***************************************************************************)
\* no JSON value is to be had from the answer: its body is no JSON, or it is
\* a list or a scalar with prose around it
Unparseable(response) ==
    \/ ~response.body.valid
    \/ response.prose /\ response.body.value.type # "dict"

\* the answer is JSON and nothing else, but no object
NotAnObject(response) ==
    /\ response.body.valid
    /\ ~response.prose
    /\ response.body.value.type # "dict"

\* the answer holds an object without the intent field
LacksIntent(response) ==
    /\ response.body.valid
    /\ response.body.value.type = "dict"
    /\ "action" \notin DOMAIN response.body.value.value

Malformed(response) ==
    Unparseable(response) \/ NotAnObject(response) \/ LacksIntent(response)

\* the step handles a reply to a live request that the model answered with
\* the response
Answered(id, response) ==
    /\ id \in DOMAIN active_requests
    /\ lastOp'.op = "handle_email_reply"
    /\ lastOp'.request_id = id
    /\ "response" \in DOMAIN lastOp'
    /\ lastOp'.response = response

KeepsTheNegotiation(id) ==
    /\ "raised" \notin DOMAIN result'
    /\ active_requests'[id].status = active_requests[id].status
    /\ active_requests'[id].recruiter_slots = active_requests[id].recruiter_slots
    /\ active_requests'[id].confirmed_slot = active_requests[id].confirmed_slot

\* C31: whatever malformed answer the language model gives (text that is no
\* JSON, JSON that is no object, an object without the intent field),
\* handle_email_reply returns without raising and leaves status,
\* recruiter_slots and confirmed_slot of the request as they were.
C31_MalformedAnswerFallsBack ==
    [][\A id \in ReplyIds, response \in Responses :
           (Answered(id, response) /\ Malformed(response))
               => KeepsTheNegotiation(id)]_vars

\* the part that holds: text that is no JSON and holds no object is taken as
\* unclear with no slots, and the reply is only added to the history
C31_UnparseableTextFallsBack ==
    [][\A id \in ReplyIds, response \in Responses :
           (Answered(id, response) /\ Unparseable(response))
               => /\ KeepsTheNegotiation(id)
                  /\ result' = [status |-> "awaiting_response"]
                  /\ lastOp'.extracted = [action |-> "unclear", slots |-> << >>]
                  /\ outbox' = << >>
                  /\ calls' = << >>]_vars

(***************************************************************************)
(* C32: the retry batch leaves out what was offered                        *)
(***************************************************************************)
Starts(slots) == {StartOf(slots[k]) : k \in 1..Len(slots)}

NoStartTwice(slots) ==
    \A i, j \in 1..Len(slots) : StartOf(slots[i]) = StartOf(slots[j]) => i = j

\* the step fetches a further batch for the request, with the widened window
FetchesFurtherBatch(id) ==
    /\ id \in DOMAIN active_requests
    /\ lastOp'.op = "handle_email_reply"
    /\ lastOp'.request_id = id
    /\ calls' # << >>
    /\ calls'[1].fn = "get_available_slots"
    /\ calls'[1].args.days_ahead = RETRY_DAYS_AHEAD

\* C32: the batch fetched on no overlap holds no interval that starts when an
\* interval of recruiter_slots starts, and so recruiter_slots never holds two
\* intervals with the same start, however many retries there were.
C32_RetryBatchExcludesOfferedSlots ==
    /\ [](\A id \in DOMAIN active_requests :
              NoStartTwice(active_requests[id].recruiter_slots))
    /\ [][\A id \in ReplyIds :
              FetchesFurtherBatch(id)
                  => Starts(calls'[1].returned)
                         \cap Starts(active_requests[id].recruiter_slots) = {}]_vars

\* the part that holds: the calendar of CalendarClient leaves the excluded
\* starts out, and with it no start is offered twice
C32_RealCalendarExcludes ==
    calendar = "CalendarClient"
        => \A id \in DOMAIN active_requests :
               NoStartTwice(active_requests[id].recruiter_slots)

(***************************************************************************)
(* C33: what an offer lists                                                *)
(***************************************************************************)
\* the offers the step sends
Offers(sent) == {k \in 1..Len(sent) : sent[k].kind = "availability_request"}

\* the batch the calendar returned in the step
Batch(made) == made[1].returned

\* the lines are the first OFFER_CAP slots of the batch, in its order
ListsTheHeadOf(lines, batch) ==
    /\ Len(lines) = Min(OFFER_CAP, Len(batch))
    /\ \A i \in 1..Len(lines) :
           lines[i].start = batch[i].start /\ lines[i].end = batch[i].end

\* C33: every offer, first or retry, lists at most 6 slots, the first 6 of the
\* batch it was given, in the order of the batch; a retry offer lists slots of
\* the batch just fetched and none that recruiter_slots already held.
C33_OfferListsTheHeadOfTheNewBatch ==
    [][\A k \in Offers(outbox') :
           /\ Len(outbox'[k].slot_lines) <= 6
           /\ ListsTheHeadOf(outbox'[k].slot_lines, Batch(calls'))
           /\ outbox'[k].retry =>
                  Starts(outbox'[k].slot_lines)
                      \cap Starts(active_requests[lastOp'.request_id].recruiter_slots)
                  = {}]_vars

\* the part that holds with either calendar: the lines are the head of the
\* batch the call was given
C33_OfferListsTheHeadOfItsBatch ==
    [][\A k \in Offers(outbox') :
           /\ Len(outbox'[k].slot_lines) <= 6
           /\ ListsTheHeadOf(outbox'[k].slot_lines, Batch(calls'))]_vars

\* a first offer cut to six of the ten slots fetched, then a retry offer
\* listing the slots that were left
C33_CutToSix ==
    /\ lastOp.op = "handle_email_reply"
    /\ Offers(outbox) # {}
    /\ \E id \in DOMAIN active_requests :
           /\ Len(active_requests[id].recruiter_slots) > REAL_SLOT_CAP
           /\ Len(outbox[1].slot_lines) + REAL_SLOT_CAP
                  = Len(active_requests[id].recruiter_slots)

(***************************************************************************)
(* C34: the slot booked is a slot that was offered                         *)
(***************************************************************************)
\* C34: whenever confirmed_slot of a request is set, it starts at the instant
\* at which some interval of the recruiter_slots of that request starts.
C34_ConfirmedSlotWasOffered ==
    \A id \in DOMAIN active_requests :
        active_requests[id].confirmed_slot # << >>
            => StartOf(active_requests[id].confirmed_slot[1])
                   \in Starts(active_requests[id].recruiter_slots)

\* a slot is booked that the candidate stated otherwise than it was offered:
\* on the Monday two weeks later, or as a range around it
C34_Witness ==
    /\ lastOp.op = "handle_email_reply"
    /\ lastOp.request_id \in DOMAIN active_requests
    /\ result.status = "confirmed"
    /\ LET request == active_requests[lastOp.request_id]
       IN  /\ request.confirmed_slot # << >>
           /\ request.candidate_slots # << >>
           /\ StartOf(request.confirmed_slot[1]) \in Starts(request.recruiter_slots)
           /\ \A k \in 1..Len(request.candidate_slots) :
                  LET stated == parse_candidate_slot_start(request.candidate_slots[k])
                  IN  stated.ok => stated.t \notin Starts(request.recruiter_slots)

(***************************************************************************)
(* C35: two negotiations of one recruiter                                  *)
(***************************************************************************)
Booked(id) ==
    /\ active_requests[id].status = "confirmed"
    /\ active_requests[id].confirmed_slot # << >>

\* C35: no two confirmed requests of the same recruiter hold confirmed slots
\* that start at the same instant.
C35_RecruiterIsNeverDoubleBooked ==
    \A i, j \in DOMAIN active_requests :
        (/\ i # j
         /\ active_requests[i].recruiter_email = active_requests[j].recruiter_email
         /\ Booked(i) /\ Booked(j))
            => StartOf(active_requests[i].confirmed_slot[1])
                   # StartOf(active_requests[j].confirmed_slot[1])

(***************************************************************************)
(* C36: simulate_reply beside fetch_new_replies                            *)
(***************************************************************************)
\* the reply is taken out of the mailbox in the step
Leaves(reply) == reply \in Range(inbox) /\ reply \notin Range(inbox')

\* the agent was handed the reply last
Handed(reply) ==
    /\ lastOp.op = "handle_email_reply"
    /\ lastOp.sender = reply.sender
    /\ lastOp.email_body = reply.body

InjectedReplies ==
    {FakeEmail(s, b, id) : s \in Senders, b \in SimulatedBodies, id \in ReplyIds}

ThreadRuns == poller.at \notin {"idle", "exited", "died"} /\ ~poller.stop

\* C36: a reply injected with simulate_reply while the polling thread runs is
\* handed to handle_email_reply once, however simulate_reply and
\* fetch_new_replies interleave: a reply leaves the mailbox only into the
\* batch the thread goes through, every reply of the batch is handed over
\* once, and a reply in the mailbox of a running thread is handed over in the
\* end, unless the service is stopped first.
C36_InjectedReplyIsHandedOverOnce ==
    /\ [][\A reply \in Range(inbox) :
              Leaves(reply) => reply \in Range(poller'.replies)]_vars
    /\ [][(poller.at = "route" /\ poller'.replies # poller.replies)
              => /\ poller'.replies = Tail(poller.replies)
                 /\ Hands(Head(poller.replies))]_vars
    /\ \A reply \in InjectedReplies :
           (reply \in Range(inbox) /\ ThreadRuns) ~> (Handed(reply) \/ poller.stop)

(***************************************************************************)
(* C37: the retries come to an end                                         *)
(***************************************************************************)
\* the step sends a retry offer for the request
Retries(id) ==
    /\ FetchesFurtherBatch(id)
    /\ Offers(outbox') # {}

\* C37: with CalendarClient, which leaves out what it is told to exclude and
\* holds finitely many intervals, every retry makes recruiter_slots longer by
\* intervals that start when none of it did, and a request whose candidate
\* keeps stating times that match nothing is in needs_human after finitely
\* many replies.
C37_RetriesComeToAnEnd ==
    /\ [][\A id \in ReplyIds :
              (calendar = "CalendarClient" /\ Retries(id))
                  => /\ Len(active_requests'[id].recruiter_slots)
                            > Len(active_requests[id].recruiter_slots)
                     /\ Cardinality(Starts(active_requests'[id].recruiter_slots))
                            > Cardinality(Starts(active_requests[id].recruiter_slots))]_vars
    /\ (calendar = "CalendarClient" /\ active_requests # << >>)
           ~> (\A id \in DOMAIN active_requests :
                   active_requests[id].status = "needs_human")

\* the request is in needs_human after a retry that added the last slots the
\* calendar had
C37_Witness ==
    /\ calendar = "CalendarClient"
    /\ lastOp.op = "handle_email_reply"
    /\ lastOp.request_id \in DOMAIN active_requests
    /\ LET request == active_requests[lastOp.request_id]
       IN  /\ request.status = "needs_human"
           /\ Len(request.conversation_history) = 2
           /\ Len(request.recruiter_slots) > REAL_SLOT_CAP
           /\ NoStartTwice(request.recruiter_slots)

(***************************************************************************)
(* C38: a reply touches its own request only                               *)
(***************************************************************************)
\* the step is a call of handle_email_reply for the request
HandlesReplyTo(id) ==
    /\ lastOp'.op = "handle_email_reply"
    /\ lastOp'.request_id = id
    /\ id \in DOMAIN active_requests

\* C38: handle_email_reply for one request leaves every other request of
\* active_requests as it was, in every field, and sends e-mail to nobody but
\* the recruiter and the candidate of the request it is called for.
C38_ReplyTouchesItsOwnRequestOnly ==
    [][\A id \in ReplyIds :
           HandlesReplyTo(id)
               => /\ DOMAIN active_requests' = DOMAIN active_requests
                  /\ \A other \in DOMAIN active_requests \ {id} :
                         active_requests'[other] = active_requests[other]
                  /\ \A k \in 1..Len(outbox') :
                         outbox'[k].to \in {active_requests[id].recruiter_email,
                                           active_requests[id].candidate_email}]_vars

\* a reply has just ended one negotiation, by a booking, a cancellation or an
\* escalation, beside another that has had a reply and a retry and still waits
C38_Witness ==
    /\ lastOp.op = "handle_email_reply"
    /\ lastOp.request_id \in DOMAIN active_requests
    /\ outbox # << >>
    /\ active_requests[lastOp.request_id].status \in Terminal
    /\ \E other \in DOMAIN active_requests \ {lastOp.request_id} :
           /\ active_requests[other].status = "awaiting_candidate"
           /\ active_requests[other].conversation_history # << >>
           /\ active_requests[other].candidate_email
                  # active_requests[lastOp.request_id].candidate_email

(***************************************************************************)
(* C39                                                                     *)
(***************************************************************************)
\* the end the slot states, on the date it states
StatedEnd(cs) == At(cs.date, 0, cs.end_time)

\* the slot states an end that reads as a time of day after its start
StatesLaterEnd(cs) == cs.end_kind = "time" /\ StatedEnd(cs) > RStart(cs)

\* the end the matcher is to use for a slot whose start it can read
EndToUse(cs, d) == IF StatesLaterEnd(cs) THEN StatedEnd(cs) ELSE RStart(cs) + d

\* what the offered slot and the respondent's interval have in common
Common(rs, cs, d) ==
    Min(OEnd(rs), EndToUse(cs, d))
        - (IF OStart(rs) > RStart(cs) THEN OStart(rs) ELSE RStart(cs))

\* C39: for every respondent slot whose start the matcher can read, the end it
\* uses is the stated end_time on the stated date when that is present, reads
\* as a time and is after the start, and start + duration otherwise (absent,
\* malformed, or not after the start); the interval has positive length, and
\* on a pair that fires none of tiers 1-3 the offered slot is returned exactly
\* when it shares at least the duration with that interval.
C39_EndIsStatedOrDerived ==
    [][\A id \in DOMAIN active_requests :
          LET offered == active_requests[id].recruiter_slots
              stated == lastOp'.extracted.slots
              d == active_requests[id].duration_minutes
              out == Returned(id)
          IN  Matches(id) =>
                 /\ \A j \in 1..Len(stated) :
                        parse_candidate_slot_start(stated[j]).ok =>
                           /\ parse_candidate_slot_end(stated[j], d).ok
                           /\ REnd(stated[j], d) = EndToUse(stated[j], d)
                           /\ REnd(stated[j], d) > RStart(stated[j])
                 /\ Len(stated) = 1 =>
                        \A i \in 1..Len(offered) :
                            NoEarlierTier(offered[i], stated[1], d) =>
                               ((\E k \in 1..Len(out) :
                                     StartOf(out[k]) = OStart(offered[i]))
                                   <=> Common(offered[i], stated[1], d) >= d)]_vars

\* a reply stating 09:30 to 09:00 and 09:30 to 10:45 has been through the
\* matcher: the first slot was given the end 09:30 + duration and met no
\* offered slot, the second kept its end and was booked
C39_Witness ==
    \E id \in DOMAIN active_requests :
        LET r == active_requests[id]
            d == r.duration_minutes
        IN  /\ lastOp.op = "handle_email_reply" /\ lastOp.request_id = id
            /\ matcher = 1
            /\ lastOp.extracted.slots = <<MondayBackwards, MondayRange>>
            /\ ~StatesLaterEnd(MondayBackwards)
            /\ REnd(MondayBackwards, d) = RStart(MondayBackwards) + d
            /\ \A i \in 1..Len(r.recruiter_slots) :
                   ~AnyTier(r.recruiter_slots[i], MondayBackwards, d)
            /\ StatesLaterEnd(MondayRange)
            /\ REnd(MondayRange, d) = StatedEnd(MondayRange)
            /\ r.status = "confirmed"

====
